---- MODULE Spec2Model ----
(***************************************************************************)
(* Model of the Cosmic MCP server: the configuration accessor and the      *)
(* memoized backend client (src/client.ts), the zod validation schemas and *)
(* the seventeen tool handlers (src/tools/*.ts) and the call-tool /        *)
(* list-tools request handlers (src/index.ts).                             *)
(*                                                                         *)
(* JavaScript values are tagged records [k, n, s, b]: k is the kind, n the *)
(* number (or 0/1 for a boolean), s the string (or the label of an array   *)
(* or object literal) and b the bytes of a Buffer.                         *)
(***************************************************************************)
EXTENDS Integers, Sequences, FiniteSets, TLC

VARIABLES
    env,          \* process.env: COSMIC_BUCKET_SLUG, COSMIC_READ_KEY, COSMIC_WRITE_KEY
    pc,           \* "startup" | "exited" | "idle" | "responded"
    cosmicClient, \* the memoized client of client.ts (NoClient = null)
    request,      \* the request being answered (NoRequest when idle)
    response,     \* the value the request handler returned for it
    events,       \* what the handler did for the request, in order
    ops,          \* the backend operations the request performed, in order
    constructions,\* how many times createBucketClient has run
    backendCalls, \* how many backend operations have been issued in total
    stderr,       \* the lines written with console.error, in order
    exitCode,     \* the code given to process.exit (0 while the process runs)
    reference,    \* the same server in a run that differs only in that its
                  \* environment is never changed after the start: its
                  \* environment, its memoized client and its last envelope
    writes,       \* the assignments the handler made to objects of its params
    inflight,     \* the calls suspended at the await of their backend operation
    history,      \* the calls answered while calls may overlap, in order of answer
    resets        \* how many times resetClient has run

vars == <<env, pc, cosmicClient, request, response, events, ops,
          constructions, backendCalls, stderr, exitCode, reference,
          writes, inflight, history, resets>>

----------------------------------------------------------------------------
(* Bounds of the model *)

MaxBackendCalls == 2
MaxResets == 1
MaxInFlight == 2
MaxCalls == 2

----------------------------------------------------------------------------
(* JavaScript values *)

Undef == [k |-> "undefined", n |-> 0, s |-> "", b |-> <<>>]
Null == [k |-> "null", n |-> 0, s |-> "", b |-> <<>>]
Str(x) == [k |-> "string", n |-> 0, s |-> x, b |-> <<>>]
Num(i) == [k |-> "number", n |-> i, s |-> "", b |-> <<>>]
Bool(t) == [k |-> "boolean", n |-> IF t THEN 1 ELSE 0, s |-> "", b |-> <<>>]
Arr(label) == [k |-> "array", n |-> 0, s |-> label, b |-> <<>>]
Obj(label) == [k |-> "object", n |-> 0, s |-> label, b |-> <<>>]
Buf(bytes) == [k |-> "buffer", n |-> 0, s |-> "", b |-> bytes]

\* JavaScript truthiness: what `if (v)`, `!v` and `v || w` test.
Truthy(v) ==
    CASE v.k = "undefined" -> FALSE
      [] v.k = "null" -> FALSE
      [] v.k = "string" -> v.s # ""
      [] v.k = "number" -> v.n # 0
      [] v.k = "boolean" -> v.n = 1
      [] OTHER -> TRUE

\* obj.key: undefined when the key is absent.
Get(obj, key) == IF key \in DOMAIN obj THEN obj[key] ELSE Undef

EmptyObject == [x \in {} |-> Undef]

\* Put that leaves a key the object already has.
PutUnlessPresent(obj, key, v) == obj @@ (key :> v)

\* { ...obj, key: v }
Put(obj, key, v) == (key :> v) @@ obj

\* The element of a one-element set: The({F(x) : x \in {v}}) is F(v) with v
\* evaluated once.
The(S) == CHOOSE x \in S : TRUE

\* The array literals used as arguments: what their items are.
ArrayItems(label) ==
    CASE label = "[]" -> "empty"
      [] label = "[title,slug]" -> "strings"
      [] label = "[{key,title,type:text}]" -> "metafields"
      [] label = "[{key,title,type:parent,children:[{key,title,type:text}]}]" -> "metafields"
      [] label = "[{key,title,type:text,note:x}]" -> "metafields"
      [] label = "[{key,title,type:bogus}]" -> "metafieldsOfUnknownType"
      [] label = "[{title}]" -> "badMetafields"
      [] label = "[1,2]" -> "numbers"
      [] OTHER -> "other"

\* The object literals used as arguments.
ObjectLabels ==
    {"{}", "{featured:true}", "{type:pages}", "{type:pages,locale:en}", "{alt:logo}",
     "{slug_field:true}", "{slug_field:yes}", "{slug_field:true,featured:true}"}

\* The object literals used as arguments: their own enumerable keys.
ObjectFields(label) ==
    CASE label = "{}" -> EmptyObject
      [] label = "{featured:true}" -> [x \in {"featured"} |-> Bool(TRUE)]
      [] label = "{type:pages}" -> [x \in {"type"} |-> Str("pages")]
      [] label = "{type:pages,locale:en}" ->
            [x \in {"type", "locale"} |-> IF x = "type" THEN Str("pages") ELSE Str("en")]
      [] label = "{alt:logo}" -> [x \in {"alt"} |-> Str("logo")]
      [] label = "{slug_field:true}" -> [x \in {"slug_field"} |-> Bool(TRUE)]
      [] label = "{slug_field:yes}" -> [x \in {"slug_field"} |-> Str("yes")]
      [] label = "{slug_field:true,featured:true}" ->
            [x \in {"slug_field", "featured"} |-> Bool(TRUE)]
      [] OTHER -> EmptyObject

----------------------------------------------------------------------------
(* zod: a schema is the sequence of the fields of z.object({...}), in      *)
(* shape order.  t is the field's type, opt whether .optional() was        *)
(* applied, def the .default() (Undef: none), lo/hi the .min()/.max()      *)
(* (hasLo/hasHi: whether given) and vals the values of a z.enum.           *)

Field(name, t, opt) ==
    [name |-> name, t |-> t, opt |-> opt, def |-> Undef,
     hasLo |-> FALSE, lo |-> 0, hasHi |-> FALSE, hi |-> 0, vals |-> {}]
Default(f, v) == [f EXCEPT !.def = v]
Min(f, m) == [f EXCEPT !.hasLo = TRUE, !.lo = m]
Max(f, m) == [f EXCEPT !.hasHi = TRUE, !.hi = m]
Enum(name, vals, opt) == [Field(name, "enum", opt) EXCEPT !.vals = vals]

StatusAny == {"published", "draft", "any"}
StatusWritable == {"published", "draft"}

\* The fifteen metafield kinds of metafieldSchema.
MetafieldTypes ==
    {"text", "textarea", "html-textarea", "markdown", "number", "date", "switch",
     "select-dropdown", "radio-buttons", "check-boxes", "file", "object",
     "objects", "repeater", "parent"}

\* const metafieldSchema = z.lazy(() => z.object({...}))
metafieldSchema ==
    << Field("key", "string", FALSE),
       Field("title", "string", FALSE),
       Enum("type", MetafieldTypes, FALSE),
       Field("required", "boolean", TRUE),
       Field("value", "unknown", TRUE),
       Field("options", "keyValues", TRUE),
       Field("children", "metafields", TRUE),
       Field("object_type", "string", TRUE) >>

\* options: z.object({slug_field: ..., content_editor: ...}).optional()
optionsSchema ==
    << Field("slug_field", "boolean", TRUE),
       Field("content_editor", "boolean", TRUE) >>

\* The object schema under a field: the element schema of
\* z.array(metafieldSchema), the z.object of options.
NestedSchema(f) ==
    IF f.t = "metafields" THEN metafieldSchema
    ELSE IF f.t = "options" THEN optionsSchema
    ELSE << >>

\* z.object({slug_field: z.boolean().optional(), content_editor: z.boolean().optional()})
OptionsObjectOk(v) ==
    /\ v.k = "object"
    /\ \A key \in (DOMAIN ObjectFields(v.s)) \cap {"slug_field", "content_editor"} :
          ObjectFields(v.s)[key].k = "boolean"

\* The zod issue code a present value v raises against field f ("" when none).
TypeIssue(f, v) ==
    CASE f.t = "string" -> IF v.k = "string" THEN "" ELSE "invalid_type"
      [] f.t = "number" ->
            IF v.k # "number" THEN "invalid_type"
            ELSE IF f.hasLo /\ v.n < f.lo THEN "too_small"
            ELSE IF f.hasHi /\ v.n > f.hi THEN "too_big"
            ELSE ""
      [] f.t = "boolean" -> IF v.k = "boolean" THEN "" ELSE "invalid_type"
      [] f.t = "enum" ->
            IF v.k # "string" THEN "invalid_type"
            ELSE IF v.s \in f.vals THEN "" ELSE "invalid_enum_value"
      [] f.t = "strings" ->
            IF v.k # "array" THEN "invalid_type"
            ELSE IF ArrayItems(v.s) \in {"strings", "empty"} THEN "" ELSE "invalid_type"
      [] f.t = "metafields" ->
            \* an item whose type is none of the enum's raises the enum's own
            \* issue (at <field>.0.type); an item of another shape, invalid_type
            IF v.k # "array" THEN "invalid_type"
            ELSE IF ArrayItems(v.s) \in {"metafields", "empty"} THEN ""
            ELSE IF ArrayItems(v.s) = "metafieldsOfUnknownType" THEN "invalid_enum_value"
            ELSE "invalid_type"
      [] f.t = "record" -> IF v.k = "object" THEN "" ELSE "invalid_type"
      [] f.t = "options" -> IF OptionsObjectOk(v) THEN "" ELSE "invalid_type"
      [] OTHER -> "invalid_type"

\* The issue of field f on the raw arguments ("" when the field parses).
FieldIssue(f, raw) ==
    LET v == Get(raw, f.name) IN
    IF v = Undef THEN (IF f.opt THEN "" ELSE "Required") ELSE TypeIssue(f, v)

\* The issues of all fields, in shape order, as ZodError.message lists them.
RECURSIVE Issues(_, _)
Issues(schema, raw) ==
    IF schema = <<>> THEN ""
    ELSE LET f == Head(schema)
             i == FieldIssue(f, raw)
         IN (IF i = "" THEN "" ELSE f.name \o ": " \o i \o "; ")
            \o Issues(Tail(schema), raw)

\* What the inner z.object of options returns: the object with the keys it
\* names, the others stripped.
OptionsParsed(v) ==
    LET given == ObjectFields(v.s)
        named == (DOMAIN given) \cap {"slug_field", "content_editor"}
    IN Obj(CHOOSE label \in ObjectLabels :
               ObjectFields(label) = [x \in named |-> given[x]])

\* What the z.object of metafieldSchema returns for each item of the array:
\* the item with the keys it names, the others stripped.
MetafieldsParsed(v) ==
    IF v.s = "[{key,title,type:text,note:x}]" THEN Arr("[{key,title,type:text}]")
    ELSE v

\* The parsed object: a key per field that was given or has a default;
\* keys the schema does not name are stripped, at the top level, inside
\* options and inside each metafield.
Parsed(schema, raw) ==
    LET kept == {i \in 1..Len(schema) :
                    Get(raw, schema[i].name) # Undef \/ schema[i].def # Undef}
        field(x) == schema[CHOOSE i \in kept : schema[i].name = x]
    IN [x \in {schema[i].name : i \in kept} |->
           IF Get(raw, x) = Undef THEN field(x).def
           ELSE IF field(x).t = "options" THEN OptionsParsed(raw[x])
           ELSE IF field(x).t = "metafields" THEN MetafieldsParsed(raw[x])
           ELSE raw[x]]

\* schema.parse(args): args is [isObject, fields]; anything but an object
\* (the request carried no arguments) is an invalid_type issue at the root.
ZodParse(schema, args) ==
    IF ~args.isObject
    THEN [ok |-> FALSE, data |-> EmptyObject, message |-> "Required"]
    ELSE LET msg == Issues(schema, args.fields) IN
         IF msg = "" THEN [ok |-> TRUE, data |-> Parsed(schema, args.fields), message |-> ""]
         ELSE [ok |-> FALSE, data |-> EmptyObject, message |-> msg]

----------------------------------------------------------------------------
(* The validation schemas of src/tools/*.ts *)

\* listObjectsSchema with limit's .max(100) left out.
listObjectsSchemaNoMax ==
    << Field("type", "string", TRUE),
       Default(Enum("status", StatusAny, TRUE), Str("any")),
       Default(Min(Field("limit", "number", TRUE), 1), Num(10)),
       Default(Min(Field("skip", "number", TRUE), 0), Num(0)),
       Field("props", "strings", TRUE),
       Field("sort", "string", TRUE),
       Max(Min(Field("depth", "number", TRUE), 0), 3),
       Field("query", "record", TRUE) >>

listObjectsSchema ==
    << Field("type", "string", TRUE),
       Default(Enum("status", StatusAny, TRUE), Str("any")),
       Default(Max(Min(Field("limit", "number", TRUE), 1), 100), Num(10)),
       Default(Min(Field("skip", "number", TRUE), 0), Num(0)),
       Field("props", "strings", TRUE),
       Field("sort", "string", TRUE),
       Max(Min(Field("depth", "number", TRUE), 0), 3),
       Field("query", "record", TRUE) >>

getObjectSchema ==
    << Field("id", "string", TRUE),
       Field("slug", "string", TRUE),
       Field("type", "string", TRUE),
       Field("props", "strings", TRUE),
       Default(Enum("status", StatusAny, TRUE), Str("any")) >>

createObjectSchema ==
    << Field("title", "string", FALSE),
       Field("type", "string", FALSE),
       Field("slug", "string", TRUE),
       Field("content", "string", TRUE),
       Default(Enum("status", StatusWritable, TRUE), Str("draft")),
       Field("metadata", "record", TRUE),
       Field("locale", "string", TRUE) >>

updateObjectSchema ==
    << Field("id", "string", FALSE),
       Field("title", "string", TRUE),
       Field("slug", "string", TRUE),
       Field("content", "string", TRUE),
       Enum("status", StatusWritable, TRUE),
       Field("metadata", "record", TRUE) >>

deleteObjectSchema ==
    << Field("id", "string", FALSE),
       Default(Field("trigger_webhook", "boolean", TRUE), Bool(TRUE)) >>

listMediaSchema ==
    << Field("folder", "string", TRUE),
       Default(Max(Min(Field("limit", "number", TRUE), 1), 100), Num(10)),
       Default(Min(Field("skip", "number", TRUE), 0), Num(0)),
       Field("props", "strings", TRUE) >>

getMediaSchema ==
    << Field("id", "string", FALSE),
       Field("props", "strings", TRUE) >>

uploadMediaSchema ==
    << Field("media", "string", FALSE),
       Field("folder", "string", TRUE),
       Field("metadata", "record", TRUE),
       Default(Field("trigger_webhook", "boolean", TRUE), Bool(TRUE)) >>

deleteMediaSchema ==
    << Field("id", "string", FALSE),
       Default(Field("trigger_webhook", "boolean", TRUE), Bool(TRUE)) >>

listObjectTypesSchema == << >>

getObjectTypeSchema == << Field("slug", "string", FALSE) >>

createObjectTypeSchema ==
    << Field("title", "string", FALSE),
       Field("slug", "string", FALSE),
       Field("singular", "string", TRUE),
       Field("metafields", "metafields", TRUE),
       Field("options", "options", TRUE) >>

updateObjectTypeSchema ==
    << Field("slug", "string", FALSE),
       Field("title", "string", TRUE),
       Field("singular", "string", TRUE),
       Field("metafields", "metafields", TRUE),
       Field("options", "options", TRUE) >>

deleteObjectTypeSchema == << Field("slug", "string", FALSE) >>

generateTextSchema ==
    << Field("prompt", "string", FALSE),
       Field("model", "string", TRUE),
       Max(Min(Field("max_tokens", "number", TRUE), 1), 100000) >>

generateImageSchema ==
    << Field("prompt", "string", FALSE),
       Field("model", "string", TRUE),
       Field("folder", "string", TRUE),
       Field("metadata", "record", TRUE),
       Field("alt_text", "string", TRUE) >>

\* generateVideoSchema with duration and resolution as free strings.
generateVideoSchemaFreeStrings ==
    << Field("prompt", "string", FALSE),
       Field("model", "string", TRUE),
       Field("duration", "string", TRUE),
       Field("resolution", "string", TRUE),
       Field("folder", "string", TRUE),
       Field("metadata", "record", TRUE) >>

generateVideoSchema ==
    << Field("prompt", "string", FALSE),
       Field("model", "string", TRUE),
       Enum("duration", {"4", "6", "8"}, TRUE),
       Enum("resolution", {"720p", "1080p"}, TRUE),
       Field("folder", "string", TRUE),
       Field("metadata", "record", TRUE) >>

----------------------------------------------------------------------------
(* The tool catalogs: each descriptor's name, the properties of its        *)
(* inputSchema, its required list, and the enum and default its properties *)
(* declare.                                                                *)

Tool(name, properties, required) ==
    [name |-> name, properties |-> properties, required |-> required,
     enums |-> [x \in {} |-> {}], defaults |-> [x \in {} |-> Undef],
     nested |-> [x \in {} |-> {}]]

\* The object schema a property nests: { type: 'object', properties: {...},
\* required: [...] } with the enum each nested property declares.
ObjectSchema(properties, required, enums) ==
    [properties |-> properties, required |-> required, enums |-> enums]

NoEnums == [x \in {} |-> {}]

\* <key>: { type: 'array', items: { type: 'object', ... } }
WithItems(t, key, items) == [t EXCEPT !.nested = (key :> items) @@ @]

\* <key>: { type: 'object', properties: {...} }
WithProperties(t, key, object) == [t EXCEPT !.nested = (key :> object) @@ @]

\* <key>: { ..., enum: [...] }
WithEnum(t, key, vals) == [t EXCEPT !.enums = (key :> vals) @@ @]

\* <key>: { ..., default: v }
WithDefault(t, key, v) == [t EXCEPT !.defaults = (key :> v) @@ @]

objectTools ==
    << WithDefault(WithDefault(WithDefault(WithEnum(
            Tool("cosmic_objects_list",
                 {"type", "status", "limit", "skip", "props", "sort", "depth", "query"}, {}),
            "status", StatusAny), "status", Str("any")),
            "limit", Num(10)), "skip", Num(0)),
       WithDefault(WithEnum(
            Tool("cosmic_objects_get", {"id", "slug", "type", "props", "status"}, {}),
            "status", StatusAny), "status", Str("any")),
       WithDefault(WithEnum(
            Tool("cosmic_objects_create",
                 {"title", "type", "slug", "content", "status", "metadata", "locale"},
                 {"title", "type"}),
            "status", StatusWritable), "status", Str("draft")),
       WithEnum(
            Tool("cosmic_objects_update",
                 {"id", "title", "slug", "content", "status", "metadata"}, {"id"}),
            "status", StatusWritable),
       WithDefault(Tool("cosmic_objects_delete", {"id", "trigger_webhook"}, {"id"}),
                   "trigger_webhook", Bool(TRUE)) >>

mediaTools ==
    << WithDefault(WithDefault(
            Tool("cosmic_media_list", {"folder", "limit", "skip", "props"}, {}),
            "limit", Num(10)), "skip", Num(0)),
       Tool("cosmic_media_get", {"id", "props"}, {"id"}),
       WithDefault(Tool("cosmic_media_upload",
                        {"media", "folder", "metadata", "trigger_webhook"}, {"media"}),
                   "trigger_webhook", Bool(TRUE)),
       WithDefault(Tool("cosmic_media_delete", {"id", "trigger_webhook"}, {"id"}),
                   "trigger_webhook", Bool(TRUE)) >>

objectTypeTools ==
    << Tool("cosmic_types_list", {}, {}),
       Tool("cosmic_types_get", {"slug"}, {"slug"}),
       WithProperties(WithItems(
            Tool("cosmic_types_create",
                 {"title", "slug", "singular", "metafields", "options"},
                 {"title", "slug"}),
            "metafields",
            ObjectSchema({"key", "title", "type", "required"}, {"key", "title", "type"},
                         "type" :> MetafieldTypes)),
            "options", ObjectSchema({"slug_field", "content_editor"}, {}, NoEnums)),
       \* the items of metafields: type is a plain string, no required list
       WithProperties(WithItems(
            Tool("cosmic_types_update",
                 {"slug", "title", "singular", "metafields", "options"}, {"slug"}),
            "metafields",
            ObjectSchema({"key", "title", "type", "required"}, {}, NoEnums)),
            "options", ObjectSchema({"slug_field", "content_editor"}, {}, NoEnums)),
       Tool("cosmic_types_delete", {"slug"}, {"slug"}) >>

aiTools ==
    << Tool("cosmic_ai_generate_text", {"prompt", "model", "max_tokens"}, {"prompt"}),
       Tool("cosmic_ai_generate_image",
            {"prompt", "model", "folder", "metadata", "alt_text"}, {"prompt"}),
       WithEnum(WithEnum(
            Tool("cosmic_ai_generate_video",
                 {"prompt", "model", "duration", "resolution", "folder", "metadata"},
                 {"prompt"}),
            "duration", {"4", "6", "8"}), "resolution", {"720p", "1080p"}) >>

\* The master list with the AI catalog left out.
allToolsWithoutAi == objectTools \o mediaTools \o objectTypeTools

\* index.ts: const allTools = [...objectTools, ...mediaTools, ...objectTypeTools, ...aiTools]
allTools == objectTools \o mediaTools \o objectTypeTools \o aiTools

----------------------------------------------------------------------------
(* client.ts *)

NoClient == [made |-> FALSE, bucketSlug |-> "", readKey |-> "", writeKey |-> ""]

\* getConfig() with a third test that requires the write key as well.
getConfigWriteRequired(e) ==
    IF e.COSMIC_BUCKET_SLUG = "" \/ e.COSMIC_READ_KEY = "" \/ e.COSMIC_WRITE_KEY = ""
    THEN [threw |-> TRUE, message |-> "COSMIC_BUCKET_SLUG environment variable is required",
          bucketSlug |-> "", readKey |-> "", writeKey |-> ""]
    ELSE [threw |-> FALSE, message |-> "",
          bucketSlug |-> e.COSMIC_BUCKET_SLUG, readKey |-> e.COSMIC_READ_KEY,
          writeKey |-> e.COSMIC_WRITE_KEY]

\* An environment entry that is not set reads as undefined; "" models both
\* the unset and the empty entry, which every test of the code (`!x`) treats alike.
getConfig(e) ==
    IF e.COSMIC_BUCKET_SLUG = ""
    THEN [threw |-> TRUE, message |-> "COSMIC_BUCKET_SLUG environment variable is required",
          bucketSlug |-> "", readKey |-> "", writeKey |-> ""]
    ELSE IF e.COSMIC_READ_KEY = ""
    THEN [threw |-> TRUE, message |-> "COSMIC_READ_KEY environment variable is required",
          bucketSlug |-> "", readKey |-> "", writeKey |-> ""]
    ELSE [threw |-> FALSE, message |-> "",
          bucketSlug |-> e.COSMIC_BUCKET_SLUG, readKey |-> e.COSMIC_READ_KEY,
          writeKey |-> e.COSMIC_WRITE_KEY]

\* createBucketClient({bucketSlug, readKey, writeKey})
createBucketClient(config) ==
    [made |-> TRUE, bucketSlug |-> config.bucketSlug, readKey |-> config.readKey,
     writeKey |-> config.writeKey]

\* getCosmicClient() without the test of the memo: it constructs on every call.
getCosmicClientNoMemo(client, e) ==
    LET config == getConfig(e) IN
    IF config.threw
    THEN [threw |-> TRUE, message |-> config.message, client |-> client, built |-> FALSE]
    ELSE [threw |-> FALSE, message |-> "", client |-> createBucketClient(config),
          built |-> TRUE]

\* getCosmicClient(): the memoized client, constructed on first use.
\* threw: getConfig threw; client: the module's cosmicClient afterwards;
\* built: whether createBucketClient ran.
getCosmicClient(client, e) ==
    IF client.made
    THEN [threw |-> FALSE, message |-> "", client |-> client, built |-> FALSE]
    ELSE LET config == getConfig(e) IN
         IF config.threw
         THEN [threw |-> TRUE, message |-> config.message, client |-> client, built |-> FALSE]
         ELSE [threw |-> FALSE, message |-> "", client |-> createBucketClient(config),
               built |-> TRUE]

hasWriteAccess(e) == e.COSMIC_WRITE_KEY # ""

WriteAccessMessage == "Write operations require COSMIC_WRITE_KEY environment variable to be set"

\* requireWriteAccess() testing the read key instead of the write key.
requireWriteAccessReadKey(e) == IF e.COSMIC_READ_KEY # "" THEN "" ELSE WriteAccessMessage

\* requireWriteAccess(): the message it throws ("" when it returns).
requireWriteAccess(e) == IF hasWriteAccess(e) THEN "" ELSE WriteAccessMessage

----------------------------------------------------------------------------
(* Result envelopes, backend operations and what a handler returns *)

TextBlock(text) == [type |-> "text", text |-> text]

\* { content: [{type: 'text', text}], isError: true }
ErrorEnvelope(text) == [content |-> <<TextBlock(text)>>, isError |-> Bool(TRUE)]

\* { content: [{type: 'text', text}] }: no isError key.
OkEnvelope(text) == [content |-> <<TextBlock(text)>>, isError |-> Undef]

\* A value thrown or rejected: instanceof Error or not, and its message.
ErrorValue(message) == [isError |-> TRUE, message |-> message]
NonErrorValue == [isError |-> FALSE, message |-> ""]
\* A rejection value that is a plain object with a message property (a
\* response body such as {status, message}), not an instance of Error.
PlainObjectValue(message) == [isError |-> FALSE, message |-> message]

\* error instanceof Error ? error.message : 'Unknown error'
CatchMessage(thrown) == IF thrown.isError THEN thrown.message ELSE "Unknown error"

\* What the backend answers to an operation. It resolves with an object
\* whose fields the handler can read and serialize (body: the fragment the
\* handler serializes, as JSON text), with undefined or null, or with an
\* object that JSON.stringify cannot serialize (thrown: what JSON.stringify
\* throws, for a circular structure, a BigInt or a toJSON that throws); or it
\* rejects.
Resolve(body) ==
    [kind |-> "resolve", thrown |-> NonErrorValue, body |-> body, response |-> "object"]
ResolveNothing(v) ==
    [kind |-> "resolve", thrown |-> NonErrorValue, body |-> v, response |-> v]
ResolveUnserializable(thrown) ==
    [kind |-> "resolve", thrown |-> thrown, body |-> "", response |-> "unserializable"]
Reject(thrown) ==
    [kind |-> "reject", thrown |-> thrown, body |-> "", response |-> "none"]

\* The TypeError of JSON.stringify for { self: <the object itself> }.
CircularStructure ==
    ErrorValue("Converting circular structure to JSON\n    --> starting at object with constructor 'Object'\n    --- property 'self' closes the circle")

\* One call of the backend client: the collection method, its positional
\* id/slug argument, its object argument (filter, payload or patch), the
\* trigger_webhook argument of deleteOne, the chained refiners in order,
\* and what the backend answered.
BackendOp(api, id, obj, flag, refiners, outcome) ==
    [api |-> api, id |-> id, obj |-> obj, flag |-> flag, refiners |-> refiners,
     outcome |-> outcome]

Refiner(name, v) == [name |-> name, v |-> v]

\* What one handler run did: the envelope it returned, the module's
\* cosmicClient afterwards, whether createBucketClient ran, the backend
\* operations issued, the steps taken and the assignments made to objects
\* reachable from params (none unless the handler adds them).
HandlerResult(envelope, client, built, backend, steps) ==
    [envelope |-> envelope, client |-> client, built |-> built,
     ops |-> backend, events |-> steps, writes |-> <<>>]

\* The assignment made to params itself instead of the object given.
WriteToParams(object, key, v) == [object |-> "params", key |-> key, v |-> v]

\* `object.key = v` on an object reachable from params.
Write(object, key, v) == [object |-> object, key |-> key, v |-> v]

\* `await <op>; return {content: [...]}` inside try, and the handler's
\* catch: the envelope after the backend answered op, in a handler whose
\* success text does not read the response (the delete handlers).
Settle(prefix, okText, op, cc, steps) ==
    IF op.outcome.kind = "resolve"
    THEN HandlerResult(OkEnvelope(okText), cc.client, cc.built, <<op>>,
                       steps \o <<"backend">>)
    ELSE HandlerResult(ErrorEnvelope(prefix \o CatchMessage(op.outcome.thrown)),
                       cc.client, cc.built, <<op>>, steps \o <<"backend">>)

\* What `response.<prop>` or JSON.stringify throws for the resolved value
\* (NonErrorValue with no message when the outcome is another: nothing is
\* thrown).
ReadThrows(prop, outcome) ==
    IF outcome.response \in {"undefined", "null"}
    THEN ErrorValue("Cannot read properties of " \o outcome.response
                    \o " (reading '" \o prop \o "')")
    ELSE outcome.thrown

\* `const response = await <op>; return {content: [{type: 'text', text:
\* JSON.stringify(... response.<prop> ...)}]}` inside try, and the handler's
\* catch: the read of response.<prop> and the serialization fall inside the
\* try, so a resolved value that cannot be read or serialized ends in the
\* catch like a rejection.
SettleRead(prefix, prop, okText, op, cc, steps) ==
    IF op.outcome.kind = "resolve"
          /\ op.outcome.response \in {"undefined", "null", "unserializable"}
    THEN HandlerResult(ErrorEnvelope(prefix \o CatchMessage(ReadThrows(prop, op.outcome))),
                       cc.client, cc.built, <<op>>, steps \o <<"backend">>)
    ELSE Settle(prefix, okText, op, cc, steps)

\* The handler's catch for a throw of requireWriteAccess().
GateCaught(prefix, message, client) ==
    HandlerResult(ErrorEnvelope(prefix \o CatchMessage(ErrorValue(message))),
                  client, FALSE, <<>>, <<"requireWriteAccess">>)

\* The handler's catch for a throw of getCosmicClient().
ClientCaught(prefix, cc, steps) ==
    HandlerResult(ErrorEnvelope(prefix \o CatchMessage(ErrorValue(cc.message))),
                  cc.client, cc.built, <<>>, steps \o <<"getCosmicClient">>)

\* Chain making the refinement whatever the test says.
ChainAlways(refiners, cond, name, v) == Append(refiners, Refiner(name, v))

\* refiners, then `request.name(v)` when cond holds.
Chain(refiners, cond, name, v) ==
    IF cond THEN Append(refiners, Refiner(name, v)) ELSE refiners

\* JSON.stringify({message, <key>: body}, null, 2)
MessageJson(message, key, body) ==
    "{message: " \o message \o ", " \o key \o ": " \o body \o "}"

----------------------------------------------------------------------------
(* tools/objects.ts *)

handleListObjects(params, client, e, outcome) ==
    LET cc == getCosmicClient(client, e)
        base == IF Truthy(Get(params, "query"))
                THEN ObjectFields(Get(params, "query").s) ELSE EmptyObject
        query == IF Truthy(Get(params, "type"))
                 THEN Put(base, "type", Get(params, "type")) ELSE base
        r1 == Chain(<<>>, Truthy(Get(params, "props")), "props", Get(params, "props"))
        r2 == Chain(r1, Truthy(Get(params, "limit")), "limit", Get(params, "limit"))
        r3 == Chain(r2, Truthy(Get(params, "skip")), "skip", Get(params, "skip"))
        r4 == Chain(r3, Truthy(Get(params, "sort")), "sort", Get(params, "sort"))
        r5 == Chain(r4, Truthy(Get(params, "status")), "status", Get(params, "status"))
        r6 == Chain(r5, Get(params, "depth") # Undef, "depth", Get(params, "depth"))
        op == BackendOp("objects.find", Undef, query, Undef, r6, outcome)
    IN IF cc.threw THEN ClientCaught("Error listing objects: ", cc, <<>>)
       ELSE [SettleRead("Error listing objects: ", "objects",
                    "{objects: " \o outcome.body \o ", total}", op, cc,
                    <<"getCosmicClient">>)
             EXCEPT !.writes =
                 \* query is params.query itself when that is given, so the
                 \* assignment of query.type lands in params.query.
                 IF Truthy(Get(params, "query")) /\ Truthy(Get(params, "type"))
                 THEN <<Write("params.query", "type", Get(params, "type"))>>
                 ELSE <<>>]

\* handleGetObject without the check that a slug comes with a type.
handleGetObjectNoTypeCheck(params, client, e, outcome) ==
    IF ~Truthy(Get(params, "id")) /\ ~Truthy(Get(params, "slug"))
    THEN HandlerResult(ErrorEnvelope("Error: Either id or slug must be provided"),
                       client, FALSE, <<>>, <<"inputCheck">>)
    ELSE
    LET cc == getCosmicClient(client, e)
        target == IF Truthy(Get(params, "id"))
                  THEN [x \in {"id"} |-> Get(params, "id")]
                  ELSE [x \in {"type", "slug"} |-> Get(params, x)]
        r1 == Chain(<<>>, Truthy(Get(params, "props")), "props", Get(params, "props"))
        r2 == Chain(r1, Truthy(Get(params, "status")), "status", Get(params, "status"))
        op == BackendOp("objects.findOne", Undef, target, Undef, r2, outcome)
    IN IF cc.threw THEN ClientCaught("Error getting object: ", cc, <<"inputCheck">>)
       ELSE SettleRead("Error getting object: ", "object", outcome.body, op, cc,
                   <<"inputCheck", "getCosmicClient">>)

\* handleGetObject rejecting a call that gives both id and slug.
handleGetObjectExactlyOne(params, client, e, outcome) ==
    IF Truthy(Get(params, "id")) = Truthy(Get(params, "slug"))
    THEN HandlerResult(ErrorEnvelope("Error: Either id or slug must be provided"),
                       client, FALSE, <<>>, <<"inputCheck">>)
    ELSE IF Truthy(Get(params, "slug")) /\ ~Truthy(Get(params, "type"))
    THEN HandlerResult(
             ErrorEnvelope("Error: type is required when using slug to get an object"),
             client, FALSE, <<>>, <<"inputCheck">>)
    ELSE
    LET cc == getCosmicClient(client, e)
        target == IF Truthy(Get(params, "id"))
                  THEN [x \in {"id"} |-> Get(params, "id")]
                  ELSE [x \in {"type", "slug"} |-> Get(params, x)]
        r1 == Chain(<<>>, Truthy(Get(params, "props")), "props", Get(params, "props"))
        r2 == Chain(r1, Truthy(Get(params, "status")), "status", Get(params, "status"))
        op == BackendOp("objects.findOne", Undef, target, Undef, r2, outcome)
    IN IF cc.threw THEN ClientCaught("Error getting object: ", cc, <<"inputCheck">>)
       ELSE SettleRead("Error getting object: ", "object", outcome.body, op, cc,
                   <<"inputCheck", "getCosmicClient">>)

handleGetObject(params, client, e, outcome) ==
    IF ~Truthy(Get(params, "id")) /\ ~Truthy(Get(params, "slug"))
    THEN HandlerResult(ErrorEnvelope("Error: Either id or slug must be provided"),
                       client, FALSE, <<>>, <<"inputCheck">>)
    ELSE IF Truthy(Get(params, "slug")) /\ ~Truthy(Get(params, "type"))
    THEN HandlerResult(
             ErrorEnvelope("Error: type is required when using slug to get an object"),
             client, FALSE, <<>>, <<"inputCheck">>)
    ELSE
    LET cc == getCosmicClient(client, e)
        target == IF Truthy(Get(params, "id"))
                  THEN [x \in {"id"} |-> Get(params, "id")]
                  ELSE [x \in {"type", "slug"} |-> Get(params, x)]
        r1 == Chain(<<>>, Truthy(Get(params, "props")), "props", Get(params, "props"))
        r2 == Chain(r1, Truthy(Get(params, "status")), "status", Get(params, "status"))
        op == BackendOp("objects.findOne", Undef, target, Undef, r2, outcome)
    IN IF cc.threw THEN ClientCaught("Error getting object: ", cc, <<"inputCheck">>)
       ELSE SettleRead("Error getting object: ", "object", outcome.body, op, cc,
                   <<"inputCheck", "getCosmicClient">>)

\* handleCreateObject sending null for the fields that were not given.
handleCreateObjectNulls(params, client, e, outcome) ==
    LET gate == requireWriteAccess(e)
        cc == getCosmicClient(client, e)
        payload == [x \in {"title", "type", "slug", "content", "status", "metadata",
                           "locale"} |->
                       IF Get(params, x) = Undef THEN Null ELSE Get(params, x)]
        op == BackendOp("objects.insertOne", Undef, payload, Undef, <<>>, outcome)
    IN IF gate # "" THEN GateCaught("Error creating object: ", gate, client)
       ELSE IF cc.threw
       THEN ClientCaught("Error creating object: ", cc, <<"requireWriteAccess">>)
       ELSE SettleRead("Error creating object: ", "object",
                   MessageJson("Object created successfully", "object", outcome.body),
                   op, cc, <<"requireWriteAccess", "getCosmicClient">>)

handleCreateObject(params, client, e, outcome) ==
    LET gate == requireWriteAccess(e)
        cc == getCosmicClient(client, e)
        payload == [x \in {"title", "type", "slug", "content", "status", "metadata",
                           "locale"} |-> Get(params, x)]
        op == BackendOp("objects.insertOne", Undef, payload, Undef, <<>>, outcome)
    IN IF gate # "" THEN GateCaught("Error creating object: ", gate, client)
       ELSE IF cc.threw
       THEN ClientCaught("Error creating object: ", cc, <<"requireWriteAccess">>)
       ELSE SettleRead("Error creating object: ", "object",
                   MessageJson("Object created successfully", "object", outcome.body),
                   op, cc, <<"requireWriteAccess", "getCosmicClient">>)

\* The assignment guarded by truthiness: `if (params.key) updates.key = params.key`.
AssignIfTruthy(updates, params, key) ==
    IF Truthy(Get(params, key)) THEN Put(updates, key, Get(params, key)) ELSE updates

\* updates, then `if (params.key !== undefined) updates.key = params.key`.
Assign(updates, params, key) ==
    IF Get(params, key) # Undef THEN Put(updates, key, Get(params, key)) ELSE updates

handleUpdateObject(params, client, e, outcome) ==
    LET gate == requireWriteAccess(e)
        cc == getCosmicClient(client, e)
        u1 == Assign(EmptyObject, params, "title")
        u2 == Assign(u1, params, "slug")
        u3 == Assign(u2, params, "content")
        u4 == Assign(u3, params, "status")
        updates == Assign(u4, params, "metadata")
        op == BackendOp("objects.updateOne", Get(params, "id"), updates, Undef, <<>>,
                        outcome)
    IN IF gate # "" THEN GateCaught("Error updating object: ", gate, client)
       ELSE IF cc.threw
       THEN ClientCaught("Error updating object: ", cc, <<"requireWriteAccess">>)
       ELSE SettleRead("Error updating object: ", "object",
                   MessageJson("Object updated successfully", "object", outcome.body),
                   op, cc, <<"requireWriteAccess", "getCosmicClient">>)

handleDeleteObject(params, client, e, outcome) ==
    LET gate == requireWriteAccess(e)
        cc == getCosmicClient(client, e)
        op == BackendOp("objects.deleteOne", Get(params, "id"), EmptyObject,
                        Get(params, "trigger_webhook"), <<>>, outcome)
    IN IF gate # "" THEN GateCaught("Error deleting object: ", gate, client)
       ELSE IF cc.threw
       THEN ClientCaught("Error deleting object: ", cc, <<"requireWriteAccess">>)
       ELSE Settle("Error deleting object: ",
                   MessageJson("Object deleted successfully", "id", Get(params, "id").s),
                   op, cc, <<"requireWriteAccess", "getCosmicClient">>)

----------------------------------------------------------------------------
(* Strings as character sequences, for startsWith, the data-URI pattern    *)
(* and base64 decoding.                                                    *)

\* The code units of a string, one character each. A code unit outside ASCII
\* is written <U+XXXX> (four hexadecimal digits) and is one character; no
\* string of the model holds these eight ASCII characters themselves.
RECURSIVE Chars(_)
Chars(str) ==
    IF str = "" THEN << >>
    ELSE IF Len(str) >= 8 /\ SubSeq(str, 1, 3) = "<U+" /\ SubSeq(str, 8, 8) = ">"
    THEN <<SubSeq(str, 1, 8)>> \o Chars(SubSeq(str, 9, Len(str)))
    ELSE <<SubSeq(str, 1, 1)>> \o Chars(SubSeq(str, 2, Len(str)))

\* str.startsWith(prefix), on characters.
StartsWith(cs, prefix) ==
    Len(cs) >= Len(prefix) /\ SubSeq(cs, 1, Len(prefix)) = prefix

\* The index of the first ch in cs, 0 when there is none.
FirstIndex(cs, ch) ==
    IF \E i \in 1..Len(cs) : cs[i] = ch
    THEN CHOOSE i \in 1..Len(cs) : cs[i] = ch /\ \A j \in 1..(i - 1) : cs[j] # ch
    ELSE 0

\* The pattern with (.*) for the payload: an empty payload matches too, and
\* so does anything after "data:" that holds a ';'.
MatchDataUriLoose(cs) ==
    [matched |-> StartsWith(cs, <<"d", "a", "t", "a", ":">>),
     mime |-> <<>>, data |-> SubSeq(cs, 23, Len(cs))]

\* The characters '.' does not match (the pattern has no s flag): line feed,
\* carriage return, LINE SEPARATOR and PARAGRAPH SEPARATOR. The two
\* separators are written <U+2028> and <U+2029>, each one character.
LineTerminators == {"\n", "\r", "<U+2028>", "<U+2029>"}

\* cs.match(/^data:([^;]+);base64,(.+)$/): the mime type is the non-empty run
\* up to the first ';', which must open ";base64,", and the payload is the
\* non-empty rest of the string, up to its end ('$' without the m flag) and
\* free of line terminators.
MatchDataUri(cs) ==
    LET rest == SubSeq(cs, 6, Len(cs))
        semi == FirstIndex(rest, ";")
        tail == SubSeq(rest, semi, Len(rest))
        data == SubSeq(tail, 9, Len(tail))
    IN IF /\ StartsWith(cs, <<"d", "a", "t", "a", ":">>)
          /\ semi >= 2
          /\ StartsWith(tail, <<";", "b", "a", "s", "e", "6", "4", ",">>)
          /\ data # <<>>
          /\ \A i \in 1..Len(data) : data[i] \notin LineTerminators
       THEN [matched |-> TRUE, mime |-> SubSeq(rest, 1, semi - 1), data |-> data]
       ELSE [matched |-> FALSE, mime |-> <<>>, data |-> <<>>]

Base64Alphabet ==
    <<"A", "B", "C", "D", "E", "F", "G", "H", "I", "J", "K", "L", "M", "N", "O",
    "P", "Q", "R", "S", "T", "U", "V", "W", "X", "Y", "Z", "a", "b", "c", "d",
    "e", "f", "g", "h", "i", "j", "k", "l", "m", "n", "o", "p", "q", "r", "s",
    "t", "u", "v", "w", "x", "y", "z", "0", "1", "2", "3", "4", "5", "6", "7",
    "8", "9", "+", "/">>

HexDigits ==
    <<"0", "1", "2", "3", "4", "5", "6", "7", "8", "9", "A", "B", "C", "D", "E", "F">>

HexValue(h) == (CHOOSE i \in 1..16 : HexDigits[i] = h) - 1

\* Whether ch is a code unit outside ASCII, written <U+XXXX>.
IsEscape(ch) == Len(ch) = 8

\* The low byte of a code unit written <U+XXXX>: the decoder reads each code
\* unit through a cast to uint8_t.
LowByte(ch) == HexValue(SubSeq(ch, 6, 6)) * 16 + HexValue(SubSeq(ch, 7, 7))

\* The decoder's table on a byte: the 6-bit value of A-Z, a-z, 0-9, '+' and
\* '/', and of the URL-safe '-' and '_'; 64 for any other byte.
Unbase64(byte) ==
    IF byte \in 65..90 THEN byte - 65
    ELSE IF byte \in 97..122 THEN byte - 71
    ELSE IF byte \in 48..57 THEN byte + 4
    ELSE IF byte \in {43, 45} THEN 62
    ELSE IF byte \in {47, 95} THEN 63
    ELSE 64

\* The 6-bit value the decoder reads from a character, 64 when it is none
\* of the alphabet's.
Base64Index(ch) ==
    IF IsEscape(ch) THEN Unbase64(LowByte(ch))
    ELSE IF ch = "-" THEN 62
    ELSE IF ch = "_" THEN 63
    ELSE IF \E i \in 1..64 : Base64Alphabet[i] = ch
    THEN (CHOOSE i \in 1..64 : Base64Alphabet[i] = ch) - 1
    ELSE 64

\* The decoder stops at '=' (a code unit whose low byte is that of '=' too).
IsPadding(ch) == IF IsEscape(ch) THEN LowByte(ch) = 61 ELSE ch = "="

\* The 6-bit values the decoder reads from cs: those of the legal characters
\* up to the first '='; any other character is skipped.
RECURSIVE Base64Digits(_)
Base64Digits(cs) ==
    IF cs = <<>> \/ IsPadding(Head(cs)) THEN <<>>
    ELSE IF Base64Index(Head(cs)) < 64
    THEN <<Base64Index(Head(cs))>> \o Base64Digits(Tail(cs))
    ELSE Base64Digits(Tail(cs))

\* Base64Bytes without the repacking of 6-bit digits into 8-bit bytes.
Base64BytesSixBit(d) == d

\* The bytes of a run of 6-bit digits: three per full group of four, two for
\* a final group of three, one for a final group of two.
RECURSIVE Base64Bytes(_)
Base64Bytes(d) ==
    IF Len(d) < 2 THEN <<>>
    ELSE LET b1 == d[1] * 4 + d[2] \div 16 IN
         IF Len(d) = 2 THEN <<b1>>
         ELSE LET b2 == (d[2] % 16) * 16 + d[3] \div 4 IN
              IF Len(d) = 3 THEN <<b1, b2>>
              ELSE <<b1, b2, (d[3] % 4) * 64 + d[4]>>
                   \o Base64Bytes(SubSeq(d, 5, Len(d)))

\* Buffer.from(data, 'base64')
BufferFromBase64(data) == Buf(Base64Bytes(Base64Digits(data)))

----------------------------------------------------------------------------
(* tools/media.ts *)

handleListMedia(params, client, e, outcome) ==
    LET cc == getCosmicClient(client, e)
        query == IF Truthy(Get(params, "folder"))
                 THEN Put(EmptyObject, "folder", Get(params, "folder")) ELSE EmptyObject
        r1 == Chain(<<>>, Truthy(Get(params, "props")), "props", Get(params, "props"))
        r2 == Chain(r1, Truthy(Get(params, "limit")), "limit", Get(params, "limit"))
        r3 == Chain(r2, Truthy(Get(params, "skip")), "skip", Get(params, "skip"))
        op == BackendOp("media.find", Undef, query, Undef, r3, outcome)
    IN IF cc.threw THEN ClientCaught("Error listing media: ", cc, <<>>)
       ELSE SettleRead("Error listing media: ", "media",
                   "{media: " \o outcome.body \o ", total}", op, cc,
                   <<"getCosmicClient">>)

\* handleGetMedia behind the write gate.
handleGetMediaGated(params, client, e, outcome) ==
    LET gate == requireWriteAccess(e)
        cc == getCosmicClient(client, e)
        r1 == Chain(<<>>, Truthy(Get(params, "props")), "props", Get(params, "props"))
        op == BackendOp("media.findOne", Undef, [x \in {"id"} |-> Get(params, "id")],
                        Undef, r1, outcome)
    IN IF gate # "" THEN GateCaught("Error getting media: ", gate, client)
       ELSE IF cc.threw
       THEN ClientCaught("Error getting media: ", cc, <<"requireWriteAccess">>)
       ELSE SettleRead("Error getting media: ", "media", outcome.body, op, cc,
                   <<"requireWriteAccess", "getCosmicClient">>)

handleGetMedia(params, client, e, outcome) ==
    LET cc == getCosmicClient(client, e)
        r1 == Chain(<<>>, Truthy(Get(params, "props")), "props", Get(params, "props"))
        op == BackendOp("media.findOne", Undef, [x \in {"id"} |-> Get(params, "id")],
                        Undef, r1, outcome)
    IN IF cc.threw THEN ClientCaught("Error getting media: ", cc, <<>>)
       ELSE SettleRead("Error getting media: ", "media", outcome.body, op, cc, <<"getCosmicClient">>)

InvalidDataUriText ==
    "Error: Invalid base64 data URI format. Expected format: data:<mimetype>;base64,<data>"

\* handleUploadMedia testing the data URI before the write gate.
handleUploadMediaFormatFirst(params, client, e, outcome) ==
    LET gate == requireWriteAccess(e)
        cc == getCosmicClient(client, e)
        cs == Chars(Get(params, "media").s)
        isData == StartsWith(cs, <<"d", "a", "t", "a", ":">>)
        matches == MatchDataUri(cs)
        mediaInput == IF isData THEN BufferFromBase64(matches.data)
                      ELSE Get(params, "media")
        payload == [x \in {"media", "folder", "metadata", "trigger_webhook"} |->
                       IF x = "media" THEN mediaInput ELSE Get(params, x)]
        op == BackendOp("media.insertOne", Undef, payload, Undef, <<>>, outcome)
        checked == IF isData THEN <<"inputCheck">> ELSE <<>>
    IN IF isData /\ ~matches.matched
       THEN HandlerResult(ErrorEnvelope(InvalidDataUriText), client, FALSE, <<>>,
                          <<"inputCheck">>)
       ELSE IF gate # ""
       THEN [GateCaught("Error uploading media: ", gate, client)
             EXCEPT !.events = checked \o <<"requireWriteAccess">>]
       ELSE IF cc.threw
       THEN ClientCaught("Error uploading media: ", cc, checked \o <<"requireWriteAccess">>)
       ELSE SettleRead("Error uploading media: ", "media",
                   MessageJson("Media uploaded successfully", "media", outcome.body),
                   op, cc, checked \o <<"requireWriteAccess", "getCosmicClient">>)

handleUploadMedia(params, client, e, outcome) ==
    LET gate == requireWriteAccess(e)
        cc == getCosmicClient(client, e)
        cs == Chars(Get(params, "media").s)
        isData == StartsWith(cs, <<"d", "a", "t", "a", ":">>)
        matches == MatchDataUri(cs)
        mediaInput == IF isData THEN BufferFromBase64(matches.data)
                      ELSE Get(params, "media")
        payload == [x \in {"media", "folder", "metadata", "trigger_webhook"} |->
                       IF x = "media" THEN mediaInput ELSE Get(params, x)]
        op == BackendOp("media.insertOne", Undef, payload, Undef, <<>>, outcome)
    IN IF gate # "" THEN GateCaught("Error uploading media: ", gate, client)
       ELSE IF cc.threw
       THEN ClientCaught("Error uploading media: ", cc, <<"requireWriteAccess">>)
       ELSE IF isData /\ ~matches.matched
       THEN HandlerResult(ErrorEnvelope(InvalidDataUriText), cc.client, cc.built, <<>>,
                          <<"requireWriteAccess", "getCosmicClient", "inputCheck">>)
       ELSE SettleRead("Error uploading media: ", "media",
                   MessageJson("Media uploaded successfully", "media", outcome.body),
                   op, cc,
                   <<"requireWriteAccess", "getCosmicClient">>
                      \o (IF isData THEN <<"inputCheck">> ELSE <<>>))

\* handleDeleteMedia taking the deletion for granted: whatever the backend
\* answers, it reports success.
handleDeleteMediaAssumed(params, client, e, outcome) ==
    LET gate == requireWriteAccess(e)
        cc == getCosmicClient(client, e)
        op == BackendOp("media.deleteOne", Get(params, "id"), EmptyObject,
                        Get(params, "trigger_webhook"), <<>>, outcome)
    IN IF gate # "" THEN GateCaught("Error deleting media: ", gate, client)
       ELSE IF cc.threw
       THEN ClientCaught("Error deleting media: ", cc, <<"requireWriteAccess">>)
       ELSE HandlerResult(OkEnvelope(MessageJson("Media deleted successfully", "id",
                                                 Get(params, "id").s)),
                          cc.client, cc.built, <<op>>,
                          <<"requireWriteAccess", "getCosmicClient", "backend">>)

handleDeleteMedia(params, client, e, outcome) ==
    LET gate == requireWriteAccess(e)
        cc == getCosmicClient(client, e)
        op == BackendOp("media.deleteOne", Get(params, "id"), EmptyObject,
                        Get(params, "trigger_webhook"), <<>>, outcome)
    IN IF gate # "" THEN GateCaught("Error deleting media: ", gate, client)
       ELSE IF cc.threw
       THEN ClientCaught("Error deleting media: ", cc, <<"requireWriteAccess">>)
       ELSE Settle("Error deleting media: ",
                   MessageJson("Media deleted successfully", "id", Get(params, "id").s),
                   op, cc, <<"requireWriteAccess", "getCosmicClient">>)

----------------------------------------------------------------------------
(* tools/object-types.ts *)

handleListObjectTypes(client, e, outcome) ==
    LET cc == getCosmicClient(client, e)
        op == BackendOp("objectTypes.find", Undef, EmptyObject, Undef, <<>>, outcome)
    IN IF cc.threw THEN ClientCaught("Error listing object types: ", cc, <<>>)
       ELSE SettleRead("Error listing object types: ", "object_types",
                   "{object_types: " \o outcome.body \o "}", op, cc,
                   <<"getCosmicClient">>)

handleGetObjectType(params, client, e, outcome) ==
    LET cc == getCosmicClient(client, e)
        op == BackendOp("objectTypes.findOne", Get(params, "slug"), EmptyObject, Undef,
                        <<>>, outcome)
    IN IF cc.threw THEN ClientCaught("Error getting object type: ", cc, <<>>)
       ELSE SettleRead("Error getting object type: ", "object_type", outcome.body, op, cc,
                   <<"getCosmicClient">>)

handleCreateObjectType(params, client, e, outcome) ==
    LET gate == requireWriteAccess(e)
        cc == getCosmicClient(client, e)
        payload == [x \in {"title", "slug", "singular", "metafields", "options"} |->
                       Get(params, x)]
        op == BackendOp("objectTypes.insertOne", Undef, payload, Undef, <<>>, outcome)
    IN IF gate # "" THEN GateCaught("Error creating object type: ", gate, client)
       ELSE IF cc.threw
       THEN ClientCaught("Error creating object type: ", cc, <<"requireWriteAccess">>)
       ELSE SettleRead("Error creating object type: ", "object_type",
                   MessageJson("Object type created successfully", "object_type",
                               outcome.body),
                   op, cc, <<"requireWriteAccess", "getCosmicClient">>)

handleUpdateObjectType(params, client, e, outcome) ==
    LET gate == requireWriteAccess(e)
        cc == getCosmicClient(client, e)
        u1 == Assign(EmptyObject, params, "title")
        u2 == Assign(u1, params, "singular")
        u3 == Assign(u2, params, "metafields")
        updates == Assign(u3, params, "options")
        op == BackendOp("objectTypes.updateOne", Get(params, "slug"), updates, Undef,
                        <<>>, outcome)
    IN IF gate # "" THEN GateCaught("Error updating object type: ", gate, client)
       ELSE IF cc.threw
       THEN ClientCaught("Error updating object type: ", cc, <<"requireWriteAccess">>)
       ELSE SettleRead("Error updating object type: ", "object_type",
                   MessageJson("Object type updated successfully", "object_type",
                               outcome.body),
                   op, cc, <<"requireWriteAccess", "getCosmicClient">>)

handleDeleteObjectType(params, client, e, outcome) ==
    LET gate == requireWriteAccess(e)
        cc == getCosmicClient(client, e)
        op == BackendOp("objectTypes.deleteOne", Get(params, "slug"), EmptyObject, Undef,
                        <<>>, outcome)
    IN IF gate # "" THEN GateCaught("Error deleting object type: ", gate, client)
       ELSE IF cc.threw
       THEN ClientCaught("Error deleting object type: ", cc, <<"requireWriteAccess">>)
       ELSE Settle("Error deleting object type: ",
                   MessageJson("Object type deleted successfully", "slug",
                               Get(params, "slug").s),
                   op, cc, <<"requireWriteAccess", "getCosmicClient">>)

----------------------------------------------------------------------------
(* tools/ai.ts *)

handleGenerateText(params, client, e, outcome) ==
    LET cc == getCosmicClient(client, e)
        payload == [x \in {"prompt", "model", "max_tokens"} |-> Get(params, x)]
        op == BackendOp("ai.generateText", Undef, payload, Undef, <<>>, outcome)
    IN IF cc.threw THEN ClientCaught("Error generating text: ", cc, <<>>)
       ELSE SettleRead("Error generating text: ", "text",
                   "{message: Text generated successfully, text: " \o outcome.body
                      \o ", model, usage}",
                   op, cc, <<"getCosmicClient">>)

handleGenerateImage(params, client, e, outcome) ==
    LET gate == requireWriteAccess(e)
        cc == getCosmicClient(client, e)
        payload == [x \in {"prompt", "model", "folder", "metadata", "alt_text"} |->
                       Get(params, x)]
        op == BackendOp("ai.generateImage", Undef, payload, Undef, <<>>, outcome)
    IN IF gate # "" THEN GateCaught("Error generating image: ", gate, client)
       ELSE IF cc.threw
       THEN ClientCaught("Error generating image: ", cc, <<"requireWriteAccess">>)
       ELSE SettleRead("Error generating image: ", "media",
                   MessageJson("Image generated successfully", "media", outcome.body),
                   op, cc, <<"requireWriteAccess", "getCosmicClient">>)

\* parseInt(str, 10) of the enum's strings.
ParseInt(str) ==
    CASE str = "4" -> 4
      [] str = "6" -> 6
      [] str = "8" -> 8
      [] OTHER -> 0

handleGenerateVideo(params, client, e, outcome) ==
    LET gate == requireWriteAccess(e)
        cc == getCosmicClient(client, e)
        duration == IF Truthy(Get(params, "duration"))
                    THEN Num(ParseInt(Get(params, "duration").s)) ELSE Undef
        payload == [x \in {"prompt", "model", "duration", "resolution", "folder",
                           "metadata"} |->
                       IF x = "duration" THEN duration ELSE Get(params, x)]
        op == BackendOp("ai.generateVideo", Undef, payload, Undef, <<>>, outcome)
    IN IF gate # "" THEN GateCaught("Error generating video: ", gate, client)
       ELSE IF cc.threw
       THEN ClientCaught("Error generating video: ", cc, <<"requireWriteAccess">>)
       ELSE SettleRead("Error generating video: ", "media",
                   "{message: Video generated successfully, media: " \o outcome.body
                      \o ", usage}",
                   op, cc, <<"requireWriteAccess", "getCosmicClient">>)

----------------------------------------------------------------------------
(* index.ts: the request handlers *)

\* One `case` of the switch: whether it parses the arguments, through which
\* schema, and the handler it calls.
Case(parses, schema, schemaName, handler) ==
    [known |-> TRUE, parses |-> parses, schema |-> schema, schemaName |-> schemaName,
     handler |-> handler]

\* switch (name): the case taken for a tool name (known: not the default).
Route(name) ==
    CASE name = "cosmic_objects_list" ->
            Case(TRUE, listObjectsSchema, "listObjectsSchema", "handleListObjects")
      [] name = "cosmic_objects_get" ->
            Case(TRUE, getObjectSchema, "getObjectSchema", "handleGetObject")
      [] name = "cosmic_objects_create" ->
            Case(TRUE, createObjectSchema, "createObjectSchema", "handleCreateObject")
      [] name = "cosmic_objects_update" ->
            Case(TRUE, updateObjectSchema, "updateObjectSchema", "handleUpdateObject")
      [] name = "cosmic_objects_delete" ->
            Case(TRUE, deleteObjectSchema, "deleteObjectSchema", "handleDeleteObject")
      [] name = "cosmic_media_list" ->
            Case(TRUE, listMediaSchema, "listMediaSchema", "handleListMedia")
      [] name = "cosmic_media_get" ->
            Case(TRUE, getMediaSchema, "getMediaSchema", "handleGetMedia")
      [] name = "cosmic_media_upload" ->
            Case(TRUE, uploadMediaSchema, "uploadMediaSchema", "handleUploadMedia")
      [] name = "cosmic_media_delete" ->
            Case(TRUE, deleteMediaSchema, "deleteMediaSchema", "handleDeleteMedia")
      [] name = "cosmic_types_list" ->
            Case(FALSE, <<>>, "", "handleListObjectTypes")
      [] name = "cosmic_types_get" ->
            Case(TRUE, getObjectTypeSchema, "getObjectTypeSchema", "handleGetObjectType")
      [] name = "cosmic_types_create" ->
            Case(TRUE, createObjectTypeSchema, "createObjectTypeSchema", "handleCreateObjectType")
      [] name = "cosmic_types_update" ->
            Case(TRUE, updateObjectTypeSchema, "updateObjectTypeSchema", "handleUpdateObjectType")
      [] name = "cosmic_types_delete" ->
            Case(TRUE, deleteObjectTypeSchema, "deleteObjectTypeSchema", "handleDeleteObjectType")
      [] name = "cosmic_ai_generate_text" ->
            Case(TRUE, generateTextSchema, "generateTextSchema", "handleGenerateText")
      [] name = "cosmic_ai_generate_image" ->
            Case(TRUE, generateImageSchema, "generateImageSchema", "handleGenerateImage")
      [] name = "cosmic_ai_generate_video" ->
            Case(TRUE, generateVideoSchema, "generateVideoSchema", "handleGenerateVideo")
      [] OTHER -> [known |-> FALSE, parses |-> FALSE, schema |-> <<>>, schemaName |-> "",
                   handler |-> ""]

\* The call `handleX(params)` of a case.
Invoke(handler, params, client, e, outcome) ==
    CASE handler = "handleListObjects" -> handleListObjects(params, client, e, outcome)
      [] handler = "handleGetObject" -> handleGetObject(params, client, e, outcome)
      [] handler = "handleCreateObject" -> handleCreateObject(params, client, e, outcome)
      [] handler = "handleUpdateObject" -> handleUpdateObject(params, client, e, outcome)
      [] handler = "handleDeleteObject" -> handleDeleteObject(params, client, e, outcome)
      [] handler = "handleListMedia" -> handleListMedia(params, client, e, outcome)
      [] handler = "handleGetMedia" -> handleGetMedia(params, client, e, outcome)
      [] handler = "handleUploadMedia" -> handleUploadMedia(params, client, e, outcome)
      [] handler = "handleDeleteMedia" -> handleDeleteMedia(params, client, e, outcome)
      [] handler = "handleListObjectTypes" -> handleListObjectTypes(client, e, outcome)
      [] handler = "handleGetObjectType" -> handleGetObjectType(params, client, e, outcome)
      [] handler = "handleCreateObjectType" -> handleCreateObjectType(params, client, e, outcome)
      [] handler = "handleUpdateObjectType" -> handleUpdateObjectType(params, client, e, outcome)
      [] handler = "handleDeleteObjectType" -> handleDeleteObjectType(params, client, e, outcome)
      [] handler = "handleGenerateText" -> handleGenerateText(params, client, e, outcome)
      [] handler = "handleGenerateImage" -> handleGenerateImage(params, client, e, outcome)
      [] handler = "handleGenerateVideo" -> handleGenerateVideo(params, client, e, outcome)
      [] OTHER -> HandlerResult(OkEnvelope(""), client, FALSE, <<>>, <<>>)

\* toCallToolResult copying the content only.
toCallToolResultContentOnly(result) == [content |-> result.content, isError |-> Undef]

\* toCallToolResult(result)
toCallToolResult(result) == [content |-> result.content, isError |-> result.isError]

NoEnvelope == [content |-> <<>>, isError |-> Undef]

\* `return toCallToolResult(await handleX(params))`, after the steps before.
Returned(before, h) ==
    [threw |-> FALSE, thrown |-> NonErrorValue,
     result |-> [h EXCEPT !.envelope = toCallToolResult(h.envelope),
                          !.events = before \o h.events]]

\* The default case returning its text without the error flag.
UnknownToolNoFlag(name, client) ==
    HandlerResult(OkEnvelope("Unknown tool: " \o name), client, FALSE, <<>>, <<>>)

\* default: the envelope for a name no case matches, returned as it is.
UnknownTool(name, client) ==
    HandlerResult(ErrorEnvelope("Unknown tool: " \o name), client, FALSE, <<>>, <<>>)

\* The body of the try block: threw says that schema.parse threw (thrown:
\* the ZodError); otherwise result is what the case returned.
SwitchBody(name, args, client, e, outcome) ==
    LET r == Route(name) IN
    IF ~r.known
    THEN [threw |-> FALSE, thrown |-> NonErrorValue, result |-> UnknownTool(name, client)]
    ELSE IF ~r.parses
    THEN Returned(<<"handler:" \o r.handler>>,
                  Invoke(r.handler, EmptyObject, client, e, outcome))
    ELSE The({ IF ~p.ok
               THEN [threw |-> TRUE, thrown |-> ErrorValue(p.message),
                     result |-> HandlerResult(NoEnvelope, client, FALSE, <<>>,
                                              <<"parse:" \o r.schemaName>>)]
               ELSE Returned(<<"parse:" \o r.schemaName, "handler:" \o r.handler>>,
                             Invoke(r.handler, p.data, client, e, outcome))
               : p \in {ZodParse(r.schema, args)} })

\* The call-tool handler without its catch: a throw of schema.parse leaves it.
CallToolRequestHandlerNoCatch(name, args, client, e, outcome) ==
    The({ [escaped |-> body.threw, result |-> body.result]
          : body \in {SwitchBody(name, args, client, e, outcome)} })

\* server.setRequestHandler(CallToolRequestSchema, ...): try { switch } catch.
\* escaped: an exception left the handler.
CallToolRequestHandler(name, args, client, e, outcome) ==
    The({ IF body.threw
          THEN [escaped |-> FALSE,
                result |-> [body.result EXCEPT !.envelope =
                    ErrorEnvelope("Error executing tool " \o name \o ": "
                                  \o CatchMessage(body.thrown))]]
          ELSE [escaped |-> FALSE, result |-> body.result]
          : body \in {SwitchBody(name, args, client, e, outcome)} })

\* The list-tools handler returning the catalogs in another order.
ListToolsRequestHandlerMediaFirst == mediaTools \o objectTools \o objectTypeTools \o aiTools

\* server.setRequestHandler(ListToolsRequestSchema, ...): { tools: allTools }
ListToolsRequestHandler == allTools

\* validateConfig(): the lines it logs, and whether it ends in
\* process.exit(code).
validateConfig(e) ==
    LET config == getConfig(e) IN
    IF config.threw
    THEN [exit |-> TRUE, code |-> 1,
          log |-> <<"[cosmic-mcp] Configuration error: " \o config.message>>]
    ELSE [exit |-> FALSE, code |-> 0,
          log |-> <<"[cosmic-mcp] Connected to bucket: " \o config.bucketSlug>>
                  \o IF config.writeKey = ""
                     THEN <<"[cosmic-mcp] Write key not provided - write operations will be disabled">>
                     ELSE <<>>]

----------------------------------------------------------------------------
(* The requests the model sends: for each tool, the products of a few      *)
(* values per parameter (Absent: the key is not sent).                     *)

Absent == [k |-> "absent", n |-> 0, s |-> "", b |-> <<>>]

Cand(name, vals) == [name |-> name, vals |-> vals]

\* Every object with, per candidate, one of its values (or no key for Absent).
RECURSIVE Product(_)
Product(cands) ==
    IF cands = <<>> THEN {EmptyObject}
    ELSE LET h == Head(cands) IN
         {IF v = Absent THEN m ELSE Put(m, h.name, v) :
              m \in Product(Tail(cands)), v \in h.vals}

PropsValues == {Absent, Arr("[title,slug]")}
LimitValues == {Absent, Num(0), Num(1), Num(100), Num(101), Str("10")}
SkipValues == {Absent, Num(-1), Num(0), Num(7)}
MetadataValues == {Absent, Obj("{alt:logo}"), Null}
MediaValues ==
    {Absent, Num(7), Str(""), Str("https://cdn.example/a.png"), Str("database.png"),
     Str("data:image/png;base64,Zm9v"), Str("data:text/plain;base64,aGk="),
     Str("data:bad-format"), Str("data:image/png;base64,"),
     Str("data:image/png;base64,Zm9v\nYmFy"),
     Str("data:image/png;base64,Zm9v<U+2028>YmFy")}
MetafieldsValues ==
    {Absent, Arr("[{key,title,type:text}]"),
     Arr("[{key,title,type:parent,children:[{key,title,type:text}]}]"),
     Arr("[{key,title,type:text,note:x}]"), Arr("[{key,title,type:bogus}]")}
OptionsValues ==
    {Absent, Obj("{slug_field:true}"), Obj("{slug_field:yes}"),
     Obj("{slug_field:true,featured:true}")}

ObjectsFor(name) ==
    CASE name = "cosmic_objects_list" ->
            Product(<< Cand("limit", LimitValues), Cand("skip", SkipValues),
                       Cand("depth", {Absent, Num(-1), Num(0), Num(3), Num(4)}) >>)
            \cup
            Product(<< Cand("type", {Absent, Str(""), Str("posts")}),
                       Cand("status", {Absent, Str("draft"), Str("bogus")}),
                       Cand("props", PropsValues),
                       Cand("sort", {Absent, Str(""), Str("-created_at")}),
                       Cand("query", {Absent, Obj("{featured:true}"),
                                      Obj("{type:pages}"),
                                      Obj("{type:pages,locale:en}")}) >>)
      [] name = "cosmic_objects_get" ->
            Product(<< Cand("id", {Absent, Str(""), Str("obj1")}),
                       Cand("slug", {Absent, Str(""), Str("hello")}),
                       Cand("type", {Absent, Str(""), Str("posts")}),
                       Cand("props", PropsValues),
                       Cand("status", {Absent, Str("bogus")}) >>)
      [] name = "cosmic_objects_create" ->
            Product(<< Cand("title", {Absent, Str("Hello")}),
                       Cand("type", {Absent, Str("posts")}),
                       Cand("slug", {Absent, Str("hello")}),
                       Cand("content", {Absent, Str("")}),
                       Cand("status", {Absent, Str("published"), Str("bogus")}),
                       Cand("metadata", MetadataValues),
                       Cand("locale", {Absent, Str("en")}) >>)
      [] name = "cosmic_objects_update" ->
            Product(<< Cand("id", {Absent, Str("obj1")}),
                       Cand("title", {Absent, Str(""), Str("New")}),
                       Cand("slug", {Absent, Str("hello")}),
                       Cand("content", {Absent, Str("")}),
                       Cand("status", {Absent, Str("published"), Str("bogus")}),
                       Cand("metadata", MetadataValues) >>)
      [] name \in {"cosmic_objects_delete", "cosmic_media_delete"} ->
            Product(<< Cand("id", {Absent, Str("obj1"), Num(5)}),
                       Cand("trigger_webhook",
                            {Absent, Bool(TRUE), Bool(FALSE), Str("yes")}) >>)
      [] name = "cosmic_media_list" ->
            Product(<< Cand("folder", {Absent, Str(""), Str("img")}),
                       Cand("limit", LimitValues), Cand("skip", SkipValues),
                       Cand("props", PropsValues) >>)
      [] name = "cosmic_media_get" ->
            Product(<< Cand("id", {Absent, Str("m1")}), Cand("props", PropsValues) >>)
      [] name = "cosmic_media_upload" ->
            Product(<< Cand("media", MediaValues),
                       Cand("folder", {Absent, Str("img")}),
                       Cand("metadata", {Absent, Obj("{alt:logo}")}),
                       Cand("trigger_webhook", {Absent, Bool(FALSE)}) >>)
      [] name = "cosmic_types_list" ->
            Product(<< Cand("slug", {Absent, Str("posts")}) >>)
      [] name = "cosmic_types_get" ->
            Product(<< Cand("slug", {Absent, Str("posts"), Num(5)}) >>)
      [] name = "cosmic_types_delete" ->
            Product(<< Cand("slug", {Absent, Str("posts"), Num(5)}),
                       Cand("trigger_webhook", {Absent, Bool(FALSE)}) >>)
      [] name = "cosmic_types_create" ->
            Product(<< Cand("title", {Absent, Str("Posts")}),
                       Cand("slug", {Absent, Str("posts")}),
                       Cand("singular", {Absent, Str("")}),
                       Cand("metafields", MetafieldsValues),
                       Cand("options", OptionsValues) >>)
      [] name = "cosmic_types_update" ->
            Product(<< Cand("slug", {Absent, Str("posts")}),
                       Cand("title", {Absent, Str(""), Str("Posts")}),
                       Cand("singular", {Absent, Str("")}),
                       Cand("metafields", MetafieldsValues),
                       Cand("options", OptionsValues) >>)
      [] name = "cosmic_ai_generate_text" ->
            Product(<< Cand("prompt", {Absent, Str("hi")}),
                       Cand("model", {Absent, Str("gpt-4")}),
                       Cand("max_tokens", {Absent, Num(0), Num(1), Num(100000),
                                           Num(100001), Str("10")}) >>)
      [] name = "cosmic_ai_generate_image" ->
            Product(<< Cand("prompt", {Absent, Str("hi")}),
                       Cand("model", {Absent, Str("m")}),
                       Cand("folder", {Absent, Str("img")}),
                       Cand("metadata", MetadataValues),
                       Cand("alt_text", {Absent, Str("")}) >>)
      [] name = "cosmic_ai_generate_video" ->
            Product(<< Cand("prompt", {Absent, Str("hi")}),
                       Cand("model", {Absent, Str("m")}),
                       Cand("duration", {Absent, Str("4"), Str("6"), Str("8"), Str("5"),
                                         Num(4)}),
                       Cand("resolution", {Absent, Str("720p"), Str("1080p"), Str("4k")}),
                       Cand("folder", {Absent, Str("img")}) >>)
      [] OTHER -> Product(<< Cand("id", {Absent, Str("obj1")}) >>)

\* The arguments of a call: an object, or none (the request has no arguments).
NoArguments == [isObject |-> FALSE, fields |-> EmptyObject]
ArgsFor(name) ==
    {NoArguments} \cup {[isObject |-> TRUE, fields |-> m] : m \in ObjectsFor(name)}

\* The names a request may carry: the descriptors' and two that are no tool's.
RequestNames == {allTools[i].name : i \in 1..Len(allTools)} \cup {"cosmic_objects_purge", ""}

\* What the backend may answer.
Outcomes ==
    {Resolve("<data>"), ResolveNothing("undefined"),
     ResolveUnserializable(CircularStructure),
     Reject(ErrorValue("Not found")), Reject(NonErrorValue),
     Reject(PlainObjectValue("Forbidden"))}

EnvValues ==
    [COSMIC_BUCKET_SLUG : {"", "my-bucket"}, COSMIC_READ_KEY : {"", "rk"},
     COSMIC_WRITE_KEY : {"", "wk"}]

----------------------------------------------------------------------------
(* The state machine *)

NoRequest == [kind |-> "none", name |-> "", args |-> NoArguments]
NoResponse == [kind |-> "none", envelope |-> NoEnvelope, tools |-> <<>>]

Init ==
    /\ env \in EnvValues
    /\ pc = "startup"
    /\ cosmicClient = NoClient
    /\ request = NoRequest
    /\ response = NoResponse
    /\ events = <<>>
    /\ ops = <<>>
    /\ constructions = 0
    /\ backendCalls = 0
    /\ stderr = <<>>
    /\ exitCode = 0
    /\ reference = [env |-> env, cosmicClient |-> NoClient, envelope |-> NoEnvelope]
    /\ writes = <<>>
    /\ inflight = <<>>
    /\ history = <<>>
    /\ resets = 0

\* The line main() prints after server.connect(transport) resolved.
StartLine == "[cosmic-mcp] Server started successfully"

\* main() printed its last line: server.connect(transport) has resolved.
Started == stderr # <<>> /\ stderr[Len(stderr)] = StartLine

\* main() up to its await: validateConfig(), then server.connect(transport)
\* is called on the stdio transport. The request handlers were registered
\* when the module was loaded, so requests are handled from here on.
Main ==
    /\ pc = "startup"
    /\ \E v \in {validateConfig(env)} :
          /\ pc' = IF v.exit THEN "exited" ELSE "idle"
          /\ exitCode' = v.code
          /\ stderr' = v.log
    /\ UNCHANGED <<env, cosmicClient, request, response, events, ops, constructions,
                   backendCalls, reference, writes, inflight, history, resets>>

\* server.connect(transport) resolves: main() prints the start line and
\* returns.
Connected ==
    /\ pc = "idle"
    /\ ~Started
    /\ stderr' = Append(stderr, StartLine)
    /\ UNCHANGED <<env, pc, cosmicClient, request, response, events, ops, constructions,
                   backendCalls, exitCode, reference, writes, inflight, history, resets>>

\* What the promise of main() may reject with after validateConfig(): the
\* transport and server.connect belong to the SDK, which is not part of the
\* program, so the values stand for whatever it throws or rejects with.
ConnectErrors == {ErrorValue("transport failed"), ErrorValue("write EPIPE")}

\* new StdioServerTransport() or server.connect(transport) throws, or the
\* promise of server.connect rejects: the callback of main().catch logs the
\* error (console.error renders an Error from its name and message on) and
\* calls process.exit(1).
ConnectFailed ==
    /\ pc = "idle"
    /\ ~Started
    /\ \E error \in ConnectErrors :
          stderr' = Append(stderr, "[cosmic-mcp] Fatal error: Error: " \o error.message)
    /\ exitCode' = 1
    /\ pc' = "exited"
    /\ UNCHANGED <<env, cosmicClient, request, response, events, ops, constructions,
                   backendCalls, reference, writes, inflight, history, resets>>

----------------------------------------------------------------------------
(* A call. The dispatcher and the handlers are async functions: a call runs *)
(* without interruption from its delivery up to the await of its handler    *)
(* (validation, the write gate, the input checks, getCosmicClient() and the *)
(* issue of the backend operation all fall before it); the handler runs     *)
(* again from the backend's answer to its return, and the dispatcher, which *)
(* awaits the handler, from the handler's return to its own. Other steps    *)
(* run in between. A handler that refuses the call returns without an       *)
(* await of its own and leaves only the dispatcher's; a call that reaches   *)
(* no await (unknown name, arguments that fail validation) returns in the   *)
(* step of its delivery.                                                    *)

\* The backend has not answered yet.
Pending == [kind |-> "pending", thrown |-> NonErrorValue, body |-> "", response |-> "none"]

\* The names of the descriptors list-tools returns.
RegisteredNames == {allTools[i].name : i \in 1..Len(allTools)}

\* The steps that are calls of a handler.
HandlerEvents == {"handler:" \o Route(n).handler : n \in RegisteredNames}

\* The dispatcher reached `await handleX(params)`.
Awaits(steps) == \E i \in 1..Len(steps) : steps[i] \in HandlerEvents

\* The requests sent while calls overlap: two that reach the backend, one
\* that fails validation, one refused for its input after the client was
\* obtained, and one of an unknown name.
AsyncRequests ==
    { [name |-> "cosmic_media_delete",
       args |-> [isObject |-> TRUE, fields |-> Put(EmptyObject, "id", Str("m1"))]],
      [name |-> "cosmic_objects_list",
       args |-> [isObject |-> TRUE, fields |-> EmptyObject]],
      [name |-> "cosmic_objects_list",
       args |-> [isObject |-> TRUE, fields |-> Put(EmptyObject, "limit", Num(0))]],
      [name |-> "cosmic_media_upload",
       args |-> [isObject |-> TRUE,
                 fields |-> Put(EmptyObject, "media", Str("data:bad-format"))]],
      [name |-> "cosmic_objects_purge",
       args |-> [isObject |-> TRUE, fields |-> EmptyObject]] }

\* The handler has not returned yet.
NoResult == HandlerResult(NoEnvelope, NoClient, FALSE, <<>>, <<>>)

\* handleX(params) of a call run with the locals it has, the backend
\* answering with outcome (Pending: the handler returned before it asked).
Awaited(name, args, client, e, outcome) ==
    LET r == Route(name)
    IN Invoke(r.handler, IF r.parses THEN ZodParse(r.schema, args).data ELSE EmptyObject,
              client, e, outcome)

\* The steps of the dispatcher up to its call of the handler.
Before(name) ==
    LET r == Route(name)
    IN (IF r.parses THEN <<"parse:" \o r.schemaName>> ELSE <<>>)
          \o <<"handler:" \o r.handler>>

\* A suspended call: its request, its rank among the calls in order of
\* arrival (seq), the number of calls already answered when it arrived
\* (after), the steps it took before its await, what its closure holds (the
\* memo and the environment it found), whether its handler has returned
\* (settled) and with what (result), and whether its handler returned
\* between the return of another call's handler and that call's answer
\* (between): a handler that refuses the call returns in the delivery, one
\* that asked the backend when it is resumed.
Suspended(name, args, begun, twin) ==
    [name |-> name, args |-> args,
     seq |-> Len(inflight) + Len(history) + 1, after |-> Len(history),
     events |-> begun.events, client |-> cosmicClient, env |-> env,
     refClient |-> reference.cosmicClient,
     settled |-> begun.ops = <<>>,
     between |-> /\ Awaits(begun.events)
                 /\ begun.ops = <<>>
                 /\ \E j \in 1..Len(inflight) : inflight[j].settled,
     result |-> IF begun.ops = <<>>
                THEN Awaited(name, args, cosmicClient, env, Pending)
                ELSE NoResult,
     refResult |-> IF twin.ops = <<>>
                   THEN Awaited(name, args, reference.cosmicClient, reference.env, Pending)
                   ELSE NoResult]

\* The locals of the first call whose closure is kept in module scope: those
\* of the call that arrived last.
ClosureOfLatest(calls, i) == calls[Len(calls)]

\* The locals of the i-th suspended call: name, args and params are consts
\* of its own activation of the dispatcher, the client a const of its
\* handler's.
Closure(calls, i) == calls[i]

\* A call answered.
Answered(call, result) ==
    [name |-> call.name, args |-> call.args, seq |-> call.seq, after |-> call.after,
     between |-> call.between, ops |-> result.ops, envelope |-> result.envelope]

Without(calls, i) == SubSeq(calls, 1, i - 1) \o SubSeq(calls, i + 1, Len(calls))

\* The response of a call-tool request is handed to the transport.
Answer(name, args, done, twin) ==
    /\ request' = [kind |-> "call", name |-> name, args |-> args]
    /\ response' = [kind |-> IF done.escaped THEN "exception" ELSE "envelope",
                    envelope |-> done.result.envelope, tools |-> <<>>]
    /\ events' = done.result.events
    /\ ops' = done.result.ops
    /\ writes' = done.result.writes
    /\ pc' = "responded"

\* A call-tool request is delivered: the dispatcher and the handler run up
\* to the handler's await, or to the return when there is none. logged: the
\* answers are kept in history.
Deliver(name, args, logged) ==
    \E begun \in {CallToolRequestHandler(name, args, cosmicClient, env, Pending)} :
    \E twin \in {CallToolRequestHandler(name, args, reference.cosmicClient,
                                        reference.env, Pending)} :
    \E call \in {Suspended(name, args, begun.result, twin.result)} :
       /\ cosmicClient' = begun.result.client
       /\ constructions' = constructions + (IF begun.result.built THEN 1 ELSE 0)
       /\ backendCalls' = backendCalls + Len(begun.result.ops)
       /\ IF Awaits(begun.result.events)
          THEN /\ inflight' = Append(inflight, call)
               /\ reference' = [reference EXCEPT !.cosmicClient = twin.result.client]
               /\ UNCHANGED <<pc, request, response, events, ops, writes, history>>
          ELSE /\ Answer(name, args, begun, twin)
               /\ reference' = [reference EXCEPT !.cosmicClient = twin.result.client,
                                                 !.envelope = twin.result.envelope]
               /\ history' = IF logged THEN Append(history, Answered(call, begun.result))
                             ELSE history
               /\ UNCHANGED inflight
       /\ UNCHANGED <<env, stderr, exitCode, resets>>

\* The backend answers the operation of a suspended call: its handler runs
\* from its await to its return with the locals it had, and the promise the
\* dispatcher awaits is settled. Suspended calls are resumed in any order.
Resume(i) ==
    /\ ~inflight[i].settled
    /\ \E outcome \in Outcomes :
       \E call \in {Closure(inflight, i)} :
          inflight' = [inflight EXCEPT ![i] =
              [@ EXCEPT !.settled = TRUE,
                        !.between = \E j \in 1..Len(inflight) :
                                       j # i /\ inflight[j].settled,
                        !.result = Awaited(call.name, call.args, call.client, call.env,
                                           outcome),
                        !.refResult = Awaited(call.name, call.args, call.refClient,
                                              reference.env, outcome)]]
    /\ UNCHANGED <<env, pc, cosmicClient, request, response, events, ops, constructions,
                   backendCalls, stderr, exitCode, reference, writes, history, resets>>

\* The dispatcher's await of a handler that has returned ends:
\* `return toCallToolResult(<the handler's result>)`, and the response is
\* handed to the transport. Settled calls return in any order. (The
\* reference run, when its handler met the backend and this one did not,
\* gets its answer here.)
Return(i, logged) ==
    /\ inflight[i].settled
    /\ \E done \in {Returned(Before(inflight[i].name), inflight[i].result)} :
       \E twin \in {Returned(Before(inflight[i].name), r) :
                       r \in IF inflight[i].refResult # NoResult
                              THEN {inflight[i].refResult}
                              ELSE {Awaited(inflight[i].name, inflight[i].args,
                                            inflight[i].refClient, reference.env, o) :
                                       o \in Outcomes}} :
          /\ Answer(inflight[i].name, inflight[i].args,
                    [escaped |-> FALSE, result |-> done.result], twin)
          /\ reference' = [reference EXCEPT !.envelope = twin.result.envelope]
          /\ inflight' = Without(inflight, i)
          /\ history' = IF logged THEN Append(history, Answered(inflight[i], done.result))
                        ELSE history
    /\ UNCHANGED <<env, cosmicClient, constructions, backendCalls, stderr, exitCode,
                   resets>>

\* The calls in flight are all of AsyncRequests.
Overlapping ==
    \A i \in 1..Len(inflight) :
       [name |-> inflight[i].name, args |-> inflight[i].args] \in AsyncRequests

\* A call-tool request is delivered: any request once the server has started
\* and no call is in flight; those of AsyncRequests also while
\* server.connect is pending and while calls of AsyncRequests are in flight.
CallTool ==
    /\ pc = "idle"
    /\ backendCalls < MaxBackendCalls
    /\ Len(inflight) < MaxInFlight
    /\ \/ /\ Started
          /\ inflight = <<>>
          /\ \E name \in RequestNames :
             \E args \in ArgsFor(name) : Deliver(name, args, FALSE)
       \/ /\ Overlapping
          /\ \E r \in AsyncRequests : Deliver(r.name, r.args, FALSE)

\* The backend answers a suspended call and its handler returns.
HandlerReturns ==
    /\ pc = "idle"
    /\ \E i \in 1..Len(inflight) : Resume(i)

\* The dispatcher returns the result of a call whose handler has returned.
CallToolReturns ==
    /\ pc = "idle"
    /\ \E i \in 1..Len(inflight) : Return(i, FALSE)

\* A list-tools request is delivered and handled.
ListTools ==
    /\ pc = "idle"
    /\ request' = [kind |-> "list", name |-> "", args |-> NoArguments]
    /\ response' = [kind |-> "tools", envelope |-> NoEnvelope,
                    tools |-> ListToolsRequestHandler]
    /\ events' = <<>>
    /\ ops' = <<>>
    /\ pc' = "responded"
    /\ UNCHANGED <<env, cosmicClient, constructions, backendCalls, stderr, exitCode,
                   reference, writes, inflight, history, resets>>

\* The transport sends the response; the server takes its next step.
Respond ==
    /\ pc = "responded"
    /\ pc' = "idle"
    /\ request' = NoRequest
    /\ response' = NoResponse
    /\ events' = <<>>
    /\ ops' = <<>>
    /\ reference' = [reference EXCEPT !.envelope = NoEnvelope]
    /\ writes' = <<>>
    /\ UNCHANGED <<env, cosmicClient, constructions, backendCalls, stderr, exitCode,
                   inflight, history, resets>>

\* resetClient()
ResetClient ==
    /\ pc = "idle"
    /\ cosmicClient.made
    /\ resets < MaxResets
    /\ cosmicClient' = NoClient
    /\ resets' = resets + 1
    /\ reference' = [reference EXCEPT !.cosmicClient = NoClient]
    /\ UNCHANGED <<env, pc, request, response, events, ops, constructions, backendCalls,
                   stderr, exitCode, writes, inflight, history>>

Next ==
    \/ Main
    \/ Connected
    \/ ConnectFailed
    \/ CallTool
    \/ HandlerReturns
    \/ CallToolReturns
    \/ ListTools
    \/ Respond
    \/ ResetClient

Spec == Init /\ [][Next]_vars

\* One entry of process.env is set or deleted while the server runs
\* (process.env is a mutable object of the process). The runs considered
\* change the environment once: env still equals the environment of the start.
SetEnv ==
    /\ pc = "idle"
    /\ env = reference.env
    /\ \E key \in DOMAIN env :
          /\ env' \in EnvValues
          /\ env'[key] # env[key]
          /\ \A other \in DOMAIN env \ {key} : env'[other] = env[other]
    /\ UNCHANGED <<pc, cosmicClient, request, response, events, ops, constructions,
                   backendCalls, stderr, exitCode, reference, writes, inflight, history, resets>>

\* The fields of a call that passes validation with the least it must give.
SampleFields(name) ==
    CASE name \in {"cosmic_objects_get", "cosmic_objects_update", "cosmic_objects_delete"}
            -> [x \in {"id"} |-> Str("obj1")]
      [] name \in {"cosmic_media_get", "cosmic_media_delete"}
            -> [x \in {"id"} |-> Str("m1")]
      [] name = "cosmic_objects_create"
            -> [x \in {"title", "type"} |-> IF x = "title" THEN Str("Hello") ELSE Str("posts")]
      [] name = "cosmic_media_upload"
            -> [x \in {"media"} |-> Str("https://cdn.example/a.png")]
      [] name \in {"cosmic_types_get", "cosmic_types_update", "cosmic_types_delete"}
            -> [x \in {"slug"} |-> Str("posts")]
      [] name = "cosmic_types_create"
            -> [x \in {"title", "slug"} |-> IF x = "title" THEN Str("Posts") ELSE Str("posts")]
      [] name \in {"cosmic_ai_generate_text", "cosmic_ai_generate_image",
                   "cosmic_ai_generate_video"}
            -> [x \in {"prompt"} |-> Str("hi")]
      [] OTHER -> EmptyObject

\* The requests sent while the environment changes: for every name one that
\* passes validation, and those of AsyncRequests.
EnvRequests ==
    AsyncRequests
       \cup {[name |-> name, args |-> [isObject |-> TRUE, fields |-> SampleFields(name)]] :
                name \in RequestNames}

\* A call-tool request of EnvRequests is delivered.
CallToolEnv ==
    /\ pc = "idle"
    /\ backendCalls < MaxBackendCalls
    /\ Len(inflight) < MaxInFlight
    /\ \E r \in EnvRequests :
          /\ (Started /\ inflight = <<>>) \/ (r \in AsyncRequests /\ Overlapping)
          /\ Deliver(r.name, r.args, FALSE)

NextEnv ==
    \/ Main
    \/ Connected
    \/ ConnectFailed
    \/ CallToolEnv
    \/ HandlerReturns
    \/ CallToolReturns
    \/ ListTools
    \/ Respond
    \/ ResetClient
    \/ SetEnv

\* The server in a process whose environment may change after the start.
SpecEnv == Init /\ [][NextEnv]_vars

----------------------------------------------------------------------------
(* Overlapping calls, with the answers kept in order. *)

\* A call-tool request of AsyncRequests is delivered.
BeginCall ==
    /\ pc = "idle"
    /\ Len(inflight) < MaxInFlight
    /\ Len(inflight) + Len(history) < MaxCalls
    /\ \E r \in AsyncRequests : Deliver(r.name, r.args, TRUE)

\* The dispatcher returns the result of a call whose handler has returned.
FinishCall ==
    /\ pc = "idle"
    /\ \E i \in 1..Len(inflight) : Return(i, TRUE)

NextAsync ==
    \/ Main
    \/ Connected
    \/ ConnectFailed
    \/ BeginCall
    \/ HandlerReturns
    \/ FinishCall
    \/ ListTools
    \/ Respond
    \/ ResetClient

\* The server answering calls that overlap.
SpecAsync == Init /\ [][NextAsync]_vars

----------------------------------------------------------------------------
(* Uploads of every media string made of a head and a short payload. *)

\* The length of the payloads.
MaxPayload == 3

\* The characters of the payloads: base64 digits, the URL-safe '_', the
\* padding, a line terminator, and a code unit outside Latin-1 whose low
\* byte is that of 'A'.
PayloadChars == {"Z", "g", "9", "_", "=", "\r", "<U+0141>"}

\* The strings over an alphabet of at most n characters.
RECURSIVE StringsUpTo(_, _)
StringsUpTo(alphabet, n) ==
    IF n = 0 THEN {""}
    ELSE LET shorter == StringsUpTo(alphabet, n - 1)
         IN shorter \cup {str \o ch : str \in shorter, ch \in alphabet}

\* What stands before the payload: a data-URI head, heads that lack the
\* mime type, the comma or the place of ";base64,", one that differs from
\* "data:" in case, a URL, and nothing.
MediaHeads ==
    {"data:image/png;base64,", "data:;base64,", "data:a;b;base64,",
     "data:image/png;base64", "Data:image/png;base64,", "https://cdn.example/", ""}

MediaExamples ==
    {"data:image/png;base64,Zm9v", "data:text/plain;base64,aGk=",
     "data:image/png;base64,Zg==", "data:image/png;base64,Z<U+0141>m9v",
     "data:bad-format", "database.png", "https://cdn.example/a.png",
     "data:image/png;base64,Zm9v\nYmFy", "data:image/png;base64,Zm9v<U+2028>YmFy"}

MediaStrings ==
    MediaExamples
       \cup {head \o payload : head \in MediaHeads,
                                payload \in StringsUpTo(PayloadChars, MaxPayload)}

\* A cosmic_media_upload request is delivered, its media one of MediaStrings.
UploadMedia ==
    /\ pc = "idle"
    /\ Started
    /\ inflight = <<>>
    /\ backendCalls < MaxBackendCalls
    /\ \E media \in MediaStrings :
          Deliver("cosmic_media_upload",
                  [isObject |-> TRUE, fields |-> Put(EmptyObject, "media", Str(media))],
                  FALSE)

NextMedia ==
    \/ Main
    \/ Connected
    \/ ConnectFailed
    \/ UploadMedia
    \/ HandlerReturns
    \/ CallToolReturns
    \/ Respond

\* The server receiving uploads.
SpecMedia == Init /\ [][NextMedia]_vars

----------------------------------------------------------------------------
(* Properties *)

\* The tools whose handlers mutate backend state.
WriteClassTools ==
    {"cosmic_objects_create", "cosmic_objects_update", "cosmic_objects_delete",
     "cosmic_media_upload", "cosmic_media_delete",
     "cosmic_types_create", "cosmic_types_update", "cosmic_types_delete",
     "cosmic_ai_generate_image", "cosmic_ai_generate_video"}

IsCall == pc = "responded" /\ request.kind = "call"
IsCallOf(name) == IsCall /\ request.name = name

\* The caller sent the key (with whatever value).
Supplied(key) == request.args.isObject /\ key \in DOMAIN request.args.fields
Arg(key) == Get(request.args.fields, key)

\* The caller sent the key with a non-empty string.
NonEmpty(key) == Supplied(key) /\ Arg(key).k = "string" /\ Arg(key).s # ""

IsErrorEnvelope == response.kind = "envelope" /\ response.envelope.isError = Bool(TRUE)
ResponseText == response.envelope.content[1].text

HandlerInvoked == \E i \in 1..Len(events) : events[i] \in HandlerEvents
ClientObtained == \E i \in 1..Len(events) : events[i] = "getCosmicClient"

\* The backend operation of the call was issued and succeeded.
BackendSucceeded == IsCall /\ Len(ops) = 1 /\ ops[1].outcome.kind = "resolve"

\* The delete tools: their handlers do not read the backend's response.
DeleteTools == {"cosmic_objects_delete", "cosmic_media_delete", "cosmic_types_delete"}

\* The backend operation succeeded, but with a value the handler could not
\* read or serialize.
ResponseUnusable ==
    /\ BackendSucceeded
    /\ request.name \notin DeleteTools
    /\ ops[1].outcome.response # "object"

\* C1: a write-class tool called while no write credential is configured
\* returns an envelope with isError = true and performs no backend operation,
\* whatever its arguments.
C1_WriteGate ==
    (IsCall /\ request.name \in WriteClassTools /\ env.COSMIC_WRITE_KEY = "")
        => (IsErrorEnvelope /\ ops = <<>>)

\* A write-class call with valid arguments reaches the gate with no write key.
C1_Witness ==
    /\ IsCallOf("cosmic_media_upload")
    /\ env.COSMIC_WRITE_KEY = ""
    /\ events = <<"parse:uploadMediaSchema", "handler:handleUploadMedia",
                  "requireWriteAccess">>

\* C2: the call-tool handler never lets an exception escape: every call, for
\* every name, argument value and backend answer, ends in a result envelope
\* with a content block.
C2_NoEscape ==
    IsCall => (response.kind = "envelope" /\ Len(response.envelope.content) >= 1)

\* A call whose arguments fail validation (schema.parse threw) was answered.
C2_Witness ==
    /\ IsCallOf("cosmic_objects_list")
    /\ events = <<"parse:listObjectsSchema">>
    /\ response.kind = "envelope"

\* C3: a call whose name is not a registered tool name returns the error
\* envelope "Unknown tool: <name>" without validating arguments, invoking a
\* handler, performing a backend operation or touching the memoized client.
C3_UnknownTool ==
    [][(pc' = "responded" /\ request'.kind = "call"
            /\ request'.name \notin RegisteredNames)
        => /\ response' = [kind |-> "envelope",
                           envelope |-> ErrorEnvelope("Unknown tool: " \o request'.name),
                           tools |-> <<>>]
           /\ events' = <<>>
           /\ ops' = <<>>
           /\ cosmicClient' = cosmicClient
           /\ constructions' = constructions
           /\ backendCalls' = backendCalls]_vars

\* An unknown name was answered while a client had already been constructed.
C3_Witness ==
    /\ IsCallOf("cosmic_objects_purge")
    /\ request.args.isObject
    /\ cosmicClient.made

\* The validation schema each tool's module defines for it.
ToolSchemaName(name) ==
    IF name = "cosmic_types_list" THEN "listObjectTypesSchema" ELSE Route(name).schemaName
ToolSchema(name) ==
    IF name = "cosmic_types_list" THEN listObjectTypesSchema ELSE Route(name).schema

\* C4: for every known tool name (all 17, cosmic_types_list included) the
\* dispatcher parses the arguments through the tool's validation schema before
\* it invokes the handler, and invokes the handler only if the parse succeeded.
C4_ParseBeforeHandler ==
    (IsCall /\ request.name \in RegisteredNames /\ HandlerInvoked)
        => /\ events[1] = "parse:" \o ToolSchemaName(request.name)
           /\ ZodParse(ToolSchema(request.name), request.args).ok

\* C5: the names returned by list-tools are exactly the names the dispatcher
\* routes to a handler: 17 descriptors with pairwise distinct names, each name
\* routed to a handler of its own, and no call is routed whose name has no
\* descriptor.
C5_CatalogMatchesDispatch ==
    /\ (pc = "responded" /\ request.kind = "list")
          => /\ response.kind = "tools"
             /\ Len(response.tools) = 17
             /\ \A i, j \in 1..Len(response.tools) :
                   i # j => /\ response.tools[i].name # response.tools[j].name
                            /\ Route(response.tools[i].name).handler
                                  # Route(response.tools[j].name).handler
             /\ \A i \in 1..Len(response.tools) : Route(response.tools[i].name).known
    /\ IsCall
          => ((request.name \in {ListToolsRequestHandler[i].name :
                                    i \in 1..Len(ListToolsRequestHandler)})
                 <=> response.envelope # ErrorEnvelope("Unknown tool: " \o request.name))

\* list-tools was answered after a tool call had constructed the client.
C5_Witness ==
    /\ pc = "responded"
    /\ request.kind = "list"
    /\ Len(response.tools) = 17
    /\ cosmicClient.made

\* The argument is a number outside lo..hi.
OutOfRange(key, lo, hi) == Supplied(key) /\ Arg(key).k = "number"
                              /\ (Arg(key).n < lo \/ Arg(key).n > hi)
Below(key, lo) == Supplied(key) /\ Arg(key).k = "number" /\ Arg(key).n < lo

\* C6: numeric ranges are enforced at validation: a list call with limit
\* outside 1..100 or skip < 0, an objects list call with depth outside 0..3, or
\* a generate-text call with max_tokens outside 1..100000 returns an error
\* envelope, never reaches its handler and performs no backend operation.
C6_RangesAtValidation ==
    (IsCall /\
       \/ /\ request.name \in {"cosmic_objects_list", "cosmic_media_list"}
          /\ (OutOfRange("limit", 1, 100) \/ Below("skip", 0))
       \/ /\ request.name = "cosmic_objects_list"
          /\ OutOfRange("depth", 0, 3)
       \/ /\ request.name = "cosmic_ai_generate_text"
          /\ OutOfRange("max_tokens", 1, 100000))
        => (IsErrorEnvelope /\ ~HandlerInvoked /\ ops = <<>>)

\* An objects list call with limit above 100 was answered.
C6_Witness ==
    /\ IsCallOf("cosmic_objects_list")
    /\ Arg("limit") = Num(101)
    /\ Arg("skip") = Num(0)
    /\ Arg("depth") = Num(3)

\* C7 as stated: a cosmic_objects_get call that supplies neither id nor slug,
\* or that supplies slug without type, returns an error envelope, performs no
\* backend operation and does not obtain the client.
C7_AsStated ==
    (IsCallOf("cosmic_objects_get") /\
       \/ (~Supplied("id") /\ ~Supplied("slug"))
       \/ (Supplied("slug") /\ ~Supplied("type")))
        => (IsErrorEnvelope /\ ops = <<>> /\ ~ClientObtained)

\* C7 amended: a cosmic_objects_get call in which neither id nor slug is a
\* non-empty string, or in which slug is a non-empty string and type is not,
\* returns an error envelope, performs no backend operation and does not
\* obtain the client.
C7_GetObjectPreconditions ==
    (IsCallOf("cosmic_objects_get") /\
       \/ (~NonEmpty("id") /\ ~NonEmpty("slug"))
       \/ (NonEmpty("slug") /\ ~NonEmpty("type")))
        => (IsErrorEnvelope /\ ops = <<>> /\ ~ClientObtained)

\* The handler ran on a slug given without a type and short-circuited.
C7_Witness ==
    /\ IsCallOf("cosmic_objects_get")
    /\ NonEmpty("slug") /\ ~Supplied("type") /\ ~Supplied("id")
    /\ events = <<"parse:getObjectSchema", "handler:handleGetObject", "inputCheck">>
    /\ IsErrorEnvelope

\* C8 as stated: a cosmic_objects_get call that supplies both id and slug is
\* short-circuited with an error envelope before any backend call.
C8_AsStated ==
    (IsCallOf("cosmic_objects_get") /\ NonEmpty("id") /\ NonEmpty("slug"))
        => (IsErrorEnvelope /\ ops = <<>>)

\* C8 amended: cosmic_objects_get requires at least one of id or slug, not
\* exactly one: a valid call that supplies a non-empty id and a non-empty slug
\* is rejected only when type is missing; with a non-empty type the handler
\* issues one findOne by id alone and the envelope is the backend's answer
\* (an error envelope when the backend rejects or its response cannot be read
\* or serialized).
C8_IdAndSlug ==
    (IsCallOf("cosmic_objects_get") /\ NonEmpty("id") /\ NonEmpty("slug")
       /\ ZodParse(getObjectSchema, request.args).ok)
        => IF NonEmpty("type")
           THEN /\ Len(ops) = 1
                /\ ops[1].api = "objects.findOne"
                /\ ops[1].obj = [x \in {"id"} |-> Arg("id")]
                /\ IsErrorEnvelope <=> (ops[1].outcome.kind = "reject" \/ ResponseUnusable)
           ELSE /\ ops = <<>>
                /\ response.envelope = ErrorEnvelope(
                       "Error: type is required when using slug to get an object")

\* A call with id, slug and type was looked up by id and succeeded.
C8_Witness ==
    /\ IsCallOf("cosmic_objects_get")
    /\ NonEmpty("id") /\ NonEmpty("slug") /\ NonEmpty("type")
    /\ Len(ops) = 1
    /\ ~IsErrorEnvelope

\* The optional fields an update tool copies into its patch, and the
\* parameter that names the target.
PatchFields(name) ==
    IF name = "cosmic_objects_update"
    THEN {"title", "slug", "content", "status", "metadata"}
    ELSE {"title", "singular", "metafields", "options"}
TargetField(name) == IF name = "cosmic_objects_update" THEN "id" ELSE "slug"

\* The value the validation schema yields for a supplied argument: the
\* argument itself, except that an options object and a metafield keep only
\* the keys their schemas name.
Validated(key) ==
    IF key = "options" THEN OptionsParsed(Arg(key))
    ELSE IF key = "metafields" THEN MetafieldsParsed(Arg(key))
    ELSE Arg(key)

\* C9 as stated: every key of the patch forwarded by cosmic_objects_update
\* and cosmic_types_update carries the value exactly as the caller supplied
\* it.
C9_AsStated ==
    (IsCall /\ request.name \in {"cosmic_objects_update", "cosmic_types_update"}
       /\ ops # <<>>)
        => \A key \in DOMAIN ops[1].obj : ops[1].obj[key] = Arg(key)

\* C9 amended: the patch cosmic_objects_update and cosmic_types_update forward
\* to updateOne has as its keys exactly the optional fields the caller
\* supplied, each with the value the validation schema yields for the
\* supplied one (the supplied value itself, the empty string included, except
\* that options and each metafield keep only the keys their schemas name);
\* the target id or slug is passed separately and is not a key of the patch
\* on its account.
C9_SparsePatch ==
    (IsCall /\ request.name \in {"cosmic_objects_update", "cosmic_types_update"}
       /\ ops # <<>>)
        => /\ Len(ops) = 1
           /\ ops[1].api \in {"objects.updateOne", "objectTypes.updateOne"}
           /\ DOMAIN ops[1].obj
                 = {key \in PatchFields(request.name) : Supplied(key)}
           /\ \A key \in DOMAIN ops[1].obj : ops[1].obj[key] = Validated(key)
           /\ ops[1].id = Arg(TargetField(request.name))
           /\ "id" \notin DOMAIN ops[1].obj

\* A type update whose options carried a key the schema does not name reached
\* the backend with that key stripped and nothing else in the patch.
C9_Witness ==
    /\ IsCallOf("cosmic_types_update")
    /\ Arg("options") = Obj("{slug_field:true,featured:true}")
    /\ ~Supplied("title")
    /\ Len(ops) = 1
    /\ ops[1].obj = [x \in {"options"} |-> Obj("{slug_field:true}")]

\* The tools whose handlers build their payload as an object literal.
LiteralPayloadTools ==
    {"cosmic_objects_create", "cosmic_types_create", "cosmic_media_upload",
     "cosmic_ai_generate_text", "cosmic_ai_generate_image", "cosmic_ai_generate_video"}

\* The schema's default for a field (Undef: none).
SchemaDefault(name, key) ==
    LET schema == Route(name).schema
    IN schema[CHOOSE i \in 1..Len(schema) : schema[i].name = key].def

\* C10 as stated: the payloads of the create, upload and AI tools contain a
\* key for an optional field only when the caller supplied it or the schema
\* defaults it, and never a key carrying null or undefined.
C10_AsStated ==
    (IsCall /\ request.name \in LiteralPayloadTools /\ ops # <<>>)
        => \A key \in DOMAIN ops[1].obj :
              /\ Supplied(key) \/ SchemaDefault(request.name, key) # Undef
              /\ ops[1].obj[key] \notin {Undef, Null}

\* C10 amended: the payloads of the create, upload and AI tools always carry
\* every parameter of the tool as a key; the key of an optional field the
\* caller omitted carries the schema's default if there is one and undefined
\* otherwise, never null and never another value; a supplied field carries
\* the value the validation schema yields for the supplied one (media and
\* duration in their converted form).
C10_LiteralPayload ==
    (IsCall /\ request.name \in LiteralPayloadTools /\ ops # <<>>)
        => /\ Len(ops) = 1
           /\ DOMAIN ops[1].obj
                 = (CHOOSE t \in {allTools[i] : i \in 1..Len(allTools)} :
                       t.name = request.name).properties
           /\ \A key \in DOMAIN ops[1].obj :
                 /\ ops[1].obj[key] # Null
                 /\ ~Supplied(key) => ops[1].obj[key] = SchemaDefault(request.name, key)
                 /\ Supplied(key) => /\ ops[1].obj[key] # Undef
                                     /\ key \notin {"media", "duration"}
                                           => ops[1].obj[key] = Validated(key)

\* A create call that gave only title and type reached the backend.
C10_Witness ==
    /\ IsCallOf("cosmic_objects_create")
    /\ DOMAIN request.args.fields = {"title", "type"}
    /\ Len(ops) = 1
    /\ ops[1].obj["slug"] = Undef
    /\ ops[1].obj["status"] = Str("draft")

\* A cosmic_media_upload call with valid arguments while a write credential
\* is configured.
UploadCall ==
    /\ IsCallOf("cosmic_media_upload")
    /\ env.COSMIC_WRITE_KEY # ""
    /\ ZodParse(uploadMediaSchema, request.args).ok

\* The string begins with the five characters "data:".
BeginsWithData(cs) ==
    /\ Len(cs) >= 5
    /\ cs[1] = "d" /\ cs[2] = "a" /\ cs[3] = "t" /\ cs[4] = "a" /\ cs[5] = ":"

\* cs reads data:<mime>;base64,<data> with the ';' at k: a non-empty mime
\* type free of ';', then ";base64,", then a non-empty payload that runs to
\* the end of the string and holds no line terminator.
ShapedAt(cs, k) ==
    /\ BeginsWithData(cs)
    /\ k >= 7
    /\ k + 8 <= Len(cs)
    /\ \A i \in 6..(k - 1) : cs[i] # ";"
    /\ SubSeq(cs, k, k + 7) = <<";", "b", "a", "s", "e", "6", "4", ",">>
    /\ \A i \in (k + 8)..Len(cs) : cs[i] \notin LineTerminators

IsDataUri(cs) == \E k \in 1..Len(cs) : ShapedAt(cs, k)
PayloadOf(cs) == SubSeq(cs, (CHOOSE k \in 1..Len(cs) : ShapedAt(cs, k)) + 8, Len(cs))

\* The bytes a run d of 6-bit values holds: byte j is the bits 8(j-1) to
\* 8j-1 of the run, and an incomplete last byte is dropped.
ByteOf(d, j) ==
    LET first == (8 * (j - 1)) \div 6 + 1
        offset == (8 * (j - 1)) % 6
    IN ((d[first] * 64 + d[first + 1]) \div (2 ^ (4 - offset))) % 256

BytesOf(d) == [j \in 1..((6 * Len(d)) \div 8) |-> ByteOf(d, j)]

\* C11: with a write credential configured, cosmic_media_upload forwards to
\* insertOne the base64-decoded bytes of the payload when media matches
\* data:<mime>;base64,<non-empty data> ("data:image/png;base64,Zm9v" gives
\* the bytes of "foo", 102 111 111), and the original string unchanged when
\* media does not begin with "data:". The decoding is that of Buffer.from:
\* the digits up to the first '=', characters outside the alphabet skipped.
C11_MediaForwarded ==
    UploadCall
        => LET cs == Chars(Arg("media").s) IN
           /\ IsDataUri(cs)
                 => /\ Len(ops) = 1
                    /\ ops[1].api = "media.insertOne"
                    /\ ops[1].obj.media = Buf(BytesOf(Base64Digits(PayloadOf(cs))))
           /\ ~BeginsWithData(cs)
                 => /\ Len(ops) = 1
                    /\ ops[1].api = "media.insertOne"
                    /\ ops[1].obj.media = Arg("media")
           /\ Arg("media") = Str("data:image/png;base64,Zm9v")
                 => ops[1].obj.media = Buf(<<102, 111, 111>>)
           /\ Arg("media") = Str("data:text/plain;base64,aGk=")
                 => ops[1].obj.media = Buf(<<104, 105>>)
           /\ Arg("media") = Str("data:image/png;base64,Zg==")
                 => ops[1].obj.media = Buf(<<102>>)
           /\ Arg("media") = Str("data:image/png;base64,Z<U+0141>m9v")
                 => ops[1].obj.media = Buf(<<100, 9, 189>>)

\* The data URI of "foo" was uploaded as three bytes.
C11_Witness ==
    /\ UploadCall
    /\ Arg("media") = Str("data:image/png;base64,Zm9v")
    /\ Len(ops) = 1
    /\ ops[1].obj.media.k = "buffer"
    /\ ops[1].outcome.kind = "resolve"

\* C12: with a write credential configured, a cosmic_media_upload call whose
\* media begins with "data:" but does not match data:<mime>;base64,<data>
\* ("data:bad-format", a data URI with an empty payload or mime type, or one
\* whose payload holds a line terminator, which the pattern's dot does not
\* match) returns an error envelope citing the invalid data-URI format and
\* performs no backend operation.
C12_MalformedDataUri ==
    UploadCall
        => LET cs == Chars(Arg("media").s) IN
           (BeginsWithData(cs) /\ ~IsDataUri(cs))
               => /\ IsErrorEnvelope
                  /\ ResponseText = InvalidDataUriText
                  /\ ops = <<>>

\* A data URI whose payload ends in a carriage return was refused after the
\* client was obtained.
C12_Witness ==
    /\ UploadCall
    /\ Arg("media") = Str("data:image/png;base64,Zg\r")
    /\ ClientObtained
    /\ IsErrorEnvelope
    /\ ops = <<>>

\* The fixed operation phrase of each tool's handler.
OperationPhrase(name) ==
    CASE name = "cosmic_objects_list" -> "Error listing objects: "
      [] name = "cosmic_objects_get" -> "Error getting object: "
      [] name = "cosmic_objects_create" -> "Error creating object: "
      [] name = "cosmic_objects_update" -> "Error updating object: "
      [] name = "cosmic_objects_delete" -> "Error deleting object: "
      [] name = "cosmic_media_list" -> "Error listing media: "
      [] name = "cosmic_media_get" -> "Error getting media: "
      [] name = "cosmic_media_upload" -> "Error uploading media: "
      [] name = "cosmic_media_delete" -> "Error deleting media: "
      [] name = "cosmic_types_list" -> "Error listing object types: "
      [] name = "cosmic_types_get" -> "Error getting object type: "
      [] name = "cosmic_types_create" -> "Error creating object type: "
      [] name = "cosmic_types_update" -> "Error updating object type: "
      [] name = "cosmic_types_delete" -> "Error deleting object type: "
      [] name = "cosmic_ai_generate_text" -> "Error generating text: "
      [] name = "cosmic_ai_generate_image" -> "Error generating image: "
      [] name = "cosmic_ai_generate_video" -> "Error generating video: "

\* The backend operation of the call was issued and failed.
BackendFailed == IsCall /\ Len(ops) = 1 /\ ops[1].outcome.kind = "reject"

\* C13: when the backend operation of any tool fails, the call returns an
\* envelope with isError = true whose single text block is the handler's
\* fixed operation phrase followed by the message the backend surfaced,
\* verbatim, for every kind of failure value that carries a message (an
\* Error or not).
C13_BackendMessageVerbatim ==
    (BackendFailed /\ ops[1].outcome.thrown.message # "")
        => /\ IsErrorEnvelope
           /\ Len(response.envelope.content) = 1
           /\ ResponseText
                 = OperationPhrase(request.name) \o ops[1].outcome.thrown.message

\* The step delivers a call-tool request: the call is suspended at its
\* handler's await, or answered at once.
CallStep ==
    /\ pc = "idle"
    /\ \/ Len(inflight') = Len(inflight) + 1
       \/ pc' = "responded" /\ request'.kind = "call" /\ inflight' = inflight

\* The call delivered by the step called getCosmicClient().
ObtainsClient ==
    /\ Len(inflight') = Len(inflight) + 1
    /\ \E k \in 1..Len(inflight'[Len(inflight')].events) :
          inflight'[Len(inflight')].events[k] = "getCosmicClient"

\* The step resumes the handler of a suspended call.
ResumeStep ==
    /\ pc = "idle" /\ pc' = "idle"
    /\ Len(inflight') = Len(inflight)
    /\ inflight' # inflight

\* The step returns a suspended call; Returning is that call.
ReturnStep == pc = "idle" /\ pc' = "responded" /\ Len(inflight) = Len(inflight') + 1
Returning == inflight[CHOOSE i \in 1..Len(inflight) : inflight' = Without(inflight, i)]

\* C14: the memoized client changes only by construction on a first use and
\* by resetClient. A tool call that finds a client leaves it and constructs
\* nothing, whether the call succeeds or fails; a call that finds none and
\* obtains the client constructs exactly one from the configuration, or, when
\* the configuration lookup fails, leaves the memo empty; resetClient empties
\* the memo, so the next use constructs a fresh instance.
C14_MemoizedClient ==
    [][/\ cosmicClient' # cosmicClient
             => \/ /\ CallStep
                   /\ ~cosmicClient.made
                   /\ cosmicClient' = createBucketClient(getConfig(env))
                   /\ constructions' = constructions + 1
                \/ /\ cosmicClient.made
                   /\ cosmicClient' = NoClient
                   /\ UNCHANGED <<pc, request, response, constructions>>
       /\ constructions' # constructions
             => (~cosmicClient.made /\ cosmicClient'.made)
       /\ (CallStep /\ cosmicClient.made)
             => (cosmicClient' = cosmicClient /\ constructions' = constructions)
       /\ (CallStep /\ ~cosmicClient.made /\ ObtainsClient)
             => IF getConfig(env).threw
                THEN cosmicClient' = NoClient /\ constructions' = constructions
                ELSE cosmicClient'.made /\ constructions' = constructions + 1
       /\ (ResumeStep \/ ReturnStep)
             => (cosmicClient' = cosmicClient /\ constructions' = constructions)
      ]_vars

\* After a construction and a resetClient, a call whose configuration lookup
\* failed left the memo empty.
C14_Witness ==
    /\ IsCall
    /\ ClientObtained
    /\ constructions = 1
    /\ cosmicClient = NoClient
    /\ env.COSMIC_BUCKET_SLUG = ""
    /\ IsErrorEnvelope

\* The environment lacks a required setting.
InvalidConfiguration(e) == e.COSMIC_BUCKET_SLUG = "" \/ e.COSMIC_READ_KEY = ""

\* The message that names the missing setting: the bucket slug when both are
\* missing.
MissingSetting(e) ==
    IF e.COSMIC_BUCKET_SLUG = ""
    THEN "COSMIC_BUCKET_SLUG environment variable is required"
    ELSE "COSMIC_READ_KEY environment variable is required"

\* C15: getConfig fails if and only if the bucket slug or the read credential
\* is absent or empty, with a message that names the missing variable (the
\* bucket slug when both are missing); the write credential never makes it
\* fail; on success the configuration carries exactly the three environment
\* values. Seen where the code applies getConfig: at the start (the failure
\* is logged) and on the first use of the client (the failure is the
\* handler's error text, the success is the client built from the result).
C15_GetConfig ==
    [][/\ (pc = "startup" /\ pc' # "startup")
             => /\ (stderr'[1] = "[cosmic-mcp] Configuration error: " \o MissingSetting(env))
                      <=> InvalidConfiguration(env)
                /\ (stderr'[1] = "[cosmic-mcp] Connected to bucket: " \o env.COSMIC_BUCKET_SLUG)
                      <=> ~InvalidConfiguration(env)
       /\ (CallStep /\ ~cosmicClient.made /\ ObtainsClient)
             => IF InvalidConfiguration(env)
                THEN ~cosmicClient'.made
                ELSE cosmicClient' = [made |-> TRUE,
                                      bucketSlug |-> env.COSMIC_BUCKET_SLUG,
                                      readKey |-> env.COSMIC_READ_KEY,
                                      writeKey |-> env.COSMIC_WRITE_KEY]
       /\ (ReturnStep /\ ~Returning.client.made /\ ClientObtained'
              /\ InvalidConfiguration(Returning.env))
             => response'.envelope
                   = ErrorEnvelope(OperationPhrase(request'.name)
                                   \o MissingSetting(Returning.env))
      ]_vars

\* The read key was deleted after the start and the first use of the client
\* failed naming it.
C15_Witness ==
    /\ IsCallOf("cosmic_media_get")
    /\ ClientObtained
    /\ env.COSMIC_BUCKET_SLUG # ""
    /\ env.COSMIC_READ_KEY = ""
    /\ ResponseText = "Error getting media: COSMIC_READ_KEY environment variable is required"

\* With a missing bucket slug or read credential the process stays at its
\* start or has exited non-zero with the missing setting logged, and has
\* served nothing.
FatalWhenInvalid ==
    InvalidConfiguration(env)
        => /\ pc \in {"startup", "exited"}
           /\ request = NoRequest
           /\ response = NoResponse
           /\ backendCalls = 0
           /\ ~cosmicClient.made
           /\ pc = "exited"
                 => /\ exitCode # 0
                    /\ stderr = <<"[cosmic-mcp] Configuration error: "
                                     \o MissingSetting(env)>>

C17_ConfigurationReadOnce ==
    /\ IsCall => response.envelope = reference.envelope
    /\ (cosmicClient.made /\ reference.cosmicClient.made)
          => cosmicClient = reference.cosmicClient

\* C18: a list-tools request always succeeds and returns the same master
\* list in every state: the object, media, content-type and AI catalogs in
\* that order (5 + 4 + 5 + 3 descriptors); it performs no backend operation
\* and leaves the client alone.
C18_ListToolsStable ==
    [][(pc = "idle" /\ pc' = "responded" /\ request'.kind = "list")
          => /\ response'.kind = "tools"
             /\ response'.tools = objectTools \o mediaTools \o objectTypeTools \o aiTools
             /\ Len(objectTools) = 5 /\ Len(mediaTools) = 4
             /\ Len(objectTypeTools) = 5 /\ Len(aiTools) = 3
             /\ response'.tools[1].name = "cosmic_objects_list"
             /\ response'.tools[6].name = "cosmic_media_list"
             /\ response'.tools[10].name = "cosmic_types_list"
             /\ response'.tools[15].name = "cosmic_ai_generate_text"
             /\ ops' = <<>>
             /\ UNCHANGED <<backendCalls, cosmicClient, constructions>>
      ]_vars

\* list-tools was answered without a write credential, after two backend
\* operations.
C18_Witness ==
    /\ pc = "responded"
    /\ request.kind = "list"
    /\ response.kind = "tools"
    /\ env.COSMIC_WRITE_KEY = ""
    /\ backendCalls = 2

\* The failure paths of a call: unknown tool, validation failure, missing
\* write credential, malformed input (no backend operation was issued) and
\* backend failure.
FailurePath ==
    \/ request.name \notin RegisteredNames
    \/ /\ request.name \in RegisteredNames \ {"cosmic_types_list"}
       /\ ~ZodParse(Route(request.name).schema, request.args).ok
    \/ request.name \in WriteClassTools /\ env.COSMIC_WRITE_KEY = ""
    \/ ops = <<>>
    \/ BackendFailed

\* C19 as stated: every envelope a call-tool request returns holds exactly
\* one content block, of type text; the error flag is true on every failure
\* path and is not true when the backend operation succeeded.
C19_AsStated ==
    IsCall
        => /\ response.kind = "envelope"
           /\ Len(response.envelope.content) = 1
           /\ response.envelope.content[1].type = "text"
           /\ FailurePath => response.envelope.isError = Bool(TRUE)
           /\ BackendSucceeded => response.envelope.isError # Bool(TRUE)
           /\ FailurePath \/ BackendSucceeded

\* C19 amended: every envelope a call-tool request returns holds exactly one
\* content block, of type text; the error flag is true on every failure
\* path, among which is a backend operation that succeeded with a response
\* the handler could not read or serialize, and is not true when the backend
\* operation succeeded and its response, if the handler reads it, was read
\* and serialized.
C19_EnvelopeShape ==
    IsCall
        => /\ response.kind = "envelope"
           /\ Len(response.envelope.content) = 1
           /\ response.envelope.content[1].type = "text"
           /\ (FailurePath \/ ResponseUnusable) => response.envelope.isError = Bool(TRUE)
           /\ (BackendSucceeded /\ ~ResponseUnusable)
                 => response.envelope.isError # Bool(TRUE)
           /\ FailurePath \/ BackendSucceeded

\* A list call whose backend operation resolved with undefined was answered
\* with the error of the read of response.objects.
C19_Witness ==
    /\ IsCallOf("cosmic_objects_list")
    /\ BackendSucceeded
    /\ ops[1].outcome = ResolveNothing("undefined")
    /\ response.envelope
          = ErrorEnvelope("Error listing objects: Cannot read properties of undefined (reading 'objects')")

\* The parameter of a delete tool that names the target.
DeleteTarget(name) == IF name = "cosmic_types_delete" THEN "slug" ELSE "id"

\* C20: each of the three delete tools accepts a target and an optional
\* webhook-trigger flag that defaults to true, and forwards the effective
\* flag together with the target to the backend deleteOne.
C20_DeleteForwardsFlag ==
    (IsCall /\ request.name \in DeleteTools /\ Len(ops) = 1)
        => /\ ops[1].id = Arg(DeleteTarget(request.name))
           /\ ops[1].flag = IF Supplied("trigger_webhook")
                             THEN Arg("trigger_webhook") ELSE Bool(TRUE)

\* C21: the adapter keeps no memory of deletions: with a write credential
\* configured, every cosmic_media_delete call, a second one for the same id
\* included, issues exactly one deleteOne for that id, and its envelope
\* reflects the backend's answer to that call alone: a success envelope if
\* the backend succeeded, an error envelope with the backend's message if it
\* reported the resource missing.
C21_NoDeletionMemory ==
    \A i \in 1..Len(history) :
        (history[i].name = "cosmic_media_delete" /\ env.COSMIC_WRITE_KEY # "")
            => /\ Len(history[i].ops) = 1
               /\ history[i].ops[1].api = "media.deleteOne"
               /\ history[i].ops[1].id = Get(history[i].args.fields, "id")
               /\ history[i].ops[1].outcome.kind = "resolve"
                     => /\ history[i].envelope.isError # Bool(TRUE)
                        /\ history[i].envelope.content[1].text
                              = MessageJson("Media deleted successfully", "id", "m1")
               /\ history[i].ops[1].outcome = Reject(ErrorValue("Not found"))
                     => history[i].envelope
                           = ErrorEnvelope("Error deleting media: Not found")

\* Two successive deletions of the same id: the first succeeded, the second,
\* begun after the first was answered, was reported missing by the backend.
C21_Witness ==
    /\ Len(history) = 2
    /\ history[1].name = "cosmic_media_delete"
    /\ history[2].name = "cosmic_media_delete"
    /\ history[1].args = history[2].args
    /\ history[2].after = 1
    /\ history[1].envelope.isError # Bool(TRUE)
    /\ history[2].envelope = ErrorEnvelope("Error deleting media: Not found")
    /\ backendCalls = 2

\* The envelope the call returns when it is the only call of a fresh server
\* and the backend gives the same answer.
Alone(h) ==
    CallToolRequestHandler(h.name, h.args, NoClient, env,
                           IF h.ops = <<>> THEN Pending ELSE h.ops[1].outcome).result.envelope

C22_VideoDuration ==
    IsCallOf("cosmic_ai_generate_video")
        => /\ (\/ (Supplied("duration")
                      /\ Arg("duration") \notin {Str("4"), Str("6"), Str("8")})
                \/ (Supplied("resolution")
                      /\ Arg("resolution") \notin {Str("720p"), Str("1080p")}))
                 => /\ ops = <<>>
                    /\ IsErrorEnvelope
                    /\ ~HandlerInvoked
           /\ (Supplied("prompt") /\ env.COSMIC_WRITE_KEY # ""
                  /\ (Supplied("duration")
                         => Arg("duration") \in {Str("4"), Str("6"), Str("8")})
                  /\ (Supplied("resolution")
                         => Arg("resolution") \in {Str("720p"), Str("1080p")}))
                 => Len(ops) = 1
           /\ Len(ops) = 1
                 => /\ ops[1].api = "ai.generateVideo"
                    /\ Arg("duration") = Str("4") => ops[1].obj.duration = Num(4)
                    /\ Arg("duration") = Str("6") => ops[1].obj.duration = Num(6)
                    /\ Arg("duration") = Str("8") => ops[1].obj.duration = Num(8)
                    /\ ~Supplied("duration") => ops[1].obj.duration.k # "number"
                    /\ ops[1].obj.resolution = Arg("resolution")

\* A video of "6" seconds at 1080p was requested from the backend as 6.
C22_Witness ==
    /\ IsCallOf("cosmic_ai_generate_video")
    /\ Arg("duration") = Str("6")
    /\ Arg("resolution") = Str("1080p")
    /\ Len(ops) = 1
    /\ ops[1].obj.duration = Num(6)

\* The tools that only read from the backend, text generation included.
ReadClassTools ==
    {"cosmic_objects_list", "cosmic_objects_get", "cosmic_media_list", "cosmic_media_get",
     "cosmic_types_list", "cosmic_types_get", "cosmic_ai_generate_text"}

\* The arguments of the call are valid for its tool: they pass the tool's
\* validation and, for cosmic_objects_get, they name the object by a
\* non-empty id or slug, a slug coming with a non-empty type.
ValidArguments ==
    /\ request.name = "cosmic_types_list"
          \/ ZodParse(Route(request.name).schema, request.args).ok
    /\ request.name = "cosmic_objects_get"
          => /\ NonEmpty("id") \/ NonEmpty("slug")
             /\ NonEmpty("slug") => NonEmpty("type")

\* The property of the response a read-class handler reads first.
ResponseProperty(name) ==
    CASE name = "cosmic_objects_list" -> "objects"
      [] name = "cosmic_objects_get" -> "object"
      [] name \in {"cosmic_media_list", "cosmic_media_get"} -> "media"
      [] name = "cosmic_types_list" -> "object_types"
      [] name = "cosmic_types_get" -> "object_type"
      [] OTHER -> "text"

\* C24 as stated: without a write credential the adapter is read-only and
\* nothing more: with the bucket slug and the read credential configured,
\* every read-class tool called with valid arguments performs its backend
\* operation and returns a non-error envelope when the backend succeeds.
C24_AsStated ==
    (IsCall /\ request.name \in ReadClassTools /\ env.COSMIC_WRITE_KEY = ""
        /\ ValidArguments)
        => /\ Len(ops) = 1
           /\ BackendSucceeded
                 => (response.kind = "envelope"
                       /\ response.envelope.isError # Bool(TRUE))

\* C24 amended: without a write credential, with the bucket slug and the
\* read credential configured, every read-class tool called with valid
\* arguments performs its backend operation; it returns a non-error envelope
\* when the backend succeeds with a response the handler can read and
\* serialize, and the handler's error envelope when the response cannot be
\* read or serialized.
C24_ReadOnlyMode ==
    (IsCall /\ request.name \in ReadClassTools /\ env.COSMIC_WRITE_KEY = ""
        /\ ValidArguments)
        => /\ Len(ops) = 1
           /\ response.kind = "envelope"
           /\ (BackendSucceeded /\ ~ResponseUnusable)
                 => response.envelope.isError # Bool(TRUE)
           /\ ResponseUnusable
                 => /\ response.envelope.isError = Bool(TRUE)
                    /\ response.envelope
                          = ErrorEnvelope(OperationPhrase(request.name)
                               \o CatchMessage(ReadThrows(ResponseProperty(request.name),
                                                          ops[1].outcome)))

\* Text was generated without a write credential.
C24_Witness ==
    /\ IsCallOf("cosmic_ai_generate_text")
    /\ env.COSMIC_WRITE_KEY = ""
    /\ BackendSucceeded
    /\ response.envelope.isError # Bool(TRUE)

-----------------------------------------------------------------------------
(* List filters and refinements *)

ListOperationTools == {"cosmic_objects_list", "cosmic_media_list"}

\* The free-form query the caller supplied, empty when there is none.
SuppliedQuery == IF Supplied("query") THEN ObjectFields(Arg("query").s) ELSE EmptyObject

\* C25: the filter cosmic_objects_list passes to the backend find is the
\* caller's query merged with the type filter: every key of the query, the key
\* type set to a non-empty type argument (overriding a type key of the query),
\* the empty filter when neither is supplied; for cosmic_media_list the filter
\* is {folder} for a non-empty folder and empty otherwise.
C25_ListFilter ==
    /\ (IsCallOf("cosmic_objects_list") /\ ops # <<>>)
          => /\ ops[1].api = "objects.find"
             /\ DOMAIN ops[1].obj
                   = DOMAIN SuppliedQuery
                        \cup (IF NonEmpty("type") THEN {"type"} ELSE {})
             /\ \A key \in DOMAIN ops[1].obj :
                   ops[1].obj[key] = IF key = "type" /\ NonEmpty("type")
                                     THEN Arg("type") ELSE SuppliedQuery[key]
             /\ (~Supplied("query") /\ ~Supplied("type")) => ops[1].obj = EmptyObject
    /\ (IsCallOf("cosmic_media_list") /\ ops # <<>>)
          => /\ ops[1].api = "media.find"
             /\ ops[1].obj = IF NonEmpty("folder")
                             THEN [x \in {"folder"} |-> Arg("folder")]
                             ELSE EmptyObject

\* A type argument overrode the type key of a two-key query.
C25_Witness ==
    /\ IsCallOf("cosmic_objects_list")
    /\ ops # <<>>
    /\ Arg("type") = Str("posts")
    /\ Arg("query") = Obj("{type:pages,locale:en}")
    /\ ops[1].obj["type"] = Str("posts")
    /\ ops[1].obj["locale"] = Str("en")

\* The refinement `name` was made on the backend query, with value v.
Refined(name, v) ==
    \E i \in 1..Len(ops[1].refiners) : ops[1].refiners[i] = Refiner(name, v)
RefinedAtAll(name) ==
    \E i \in 1..Len(ops[1].refiners) : ops[1].refiners[i].name = name

\* The value validation hands the handler: the supplied one or the default.
Effective(key) == IF Supplied(key) THEN Arg(key) ELSE SchemaDefault(request.name, key)

\* C26 as stated: the list operations apply the effective limit and skip (the
\* defaults 10 and 0 when omitted, skip = 0 included) and, for objects, a
\* supplied depth (0 included), a supplied sort key and the effective status.
C26_AsStated ==
    (IsCall /\ request.name \in ListOperationTools /\ ops # <<>>)
        => /\ Refined("limit", Effective("limit"))
           /\ Refined("skip", Effective("skip"))
           /\ request.name = "cosmic_objects_list"
                 => /\ Supplied("depth") => Refined("depth", Arg("depth"))
                    /\ NonEmpty("sort") => Refined("sort", Arg("sort"))
                    /\ Refined("status", Effective("status"))

\* C26: the list operations apply the effective limit (default 10) and a
\* skip greater than 0 as given, and make no skip refinement when the
\* effective skip is 0 (omitted or supplied); for objects a supplied depth
\* (0 included), a supplied non-empty sort key and the effective status
\* (default "any") are each applied, and an empty sort key is not.
C26_Refinements ==
    (IsCall /\ request.name \in ListOperationTools /\ ops # <<>>)
        => /\ Refined("limit", Effective("limit"))
           /\ IF Effective("skip") = Num(0)
              THEN ~RefinedAtAll("skip")
              ELSE Refined("skip", Effective("skip"))
           /\ request.name = "cosmic_objects_list"
                 => /\ Supplied("depth") => Refined("depth", Arg("depth"))
                    /\ ~Supplied("depth") => ~RefinedAtAll("depth")
                    /\ IF NonEmpty("sort")
                       THEN Refined("sort", Arg("sort"))
                       ELSE ~RefinedAtAll("sort")
                    /\ Refined("status", Effective("status"))

\* A list call with skip = 0 and depth = 0: the depth was applied, the skip
\* was not.
C26_Witness ==
    /\ IsCallOf("cosmic_objects_list")
    /\ ops # <<>>
    /\ Arg("skip") = Num(0)
    /\ Arg("depth") = Num(0)
    /\ Refined("depth", Num(0))
    /\ Refined("limit", Num(10))
    /\ ~RefinedAtAll("skip")

-----------------------------------------------------------------------------
(* The order of the checks of a call *)

ParseEvents == {"parse:" \o ToolSchemaName(n) : n \in RegisteredNames}

\* The place of a step in the order as stated: validation, write gate,
\* domain-specific input check, client construction, backend call.
StageAsStated(step) ==
    CASE step \in ParseEvents -> 1
      [] step \in HandlerEvents -> 2
      [] step = "requireWriteAccess" -> 3
      [] step = "inputCheck" -> 4
      [] step = "getCosmicClient" -> 5
      [] OTHER -> 6

\* The place of a step in the order of the handlers: the input check of
\* handleUploadMedia comes after the client is obtained.
Stage(step) ==
    CASE step \in ParseEvents -> 1
      [] step \in HandlerEvents -> 2
      [] step = "requireWriteAccess" -> 3
      [] step = "inputCheck" -> IF request.name = "cosmic_media_upload" THEN 6 ELSE 4
      [] step = "getCosmicClient" -> 5
      [] OTHER -> 7

MalformedDataUris ==
    {Str("data:bad-format"), Str("data:image/png;base64,"),
     Str("data:image/png;base64,Zm9v\nYmFy"),
     Str("data:image/png;base64,Zm9v<U+2028>YmFy")}

DispatcherText(message) == "Error executing tool " \o request.name \o ": " \o message

\* The consequences C28 draws from the order.
OrderConsequences ==
    /\ (IsCall /\ request.name \notin RegisteredNames)
          => (IsErrorEnvelope /\ ResponseText = "Unknown tool: " \o request.name)
    /\ (IsCall /\ request.name \in WriteClassTools /\ env.COSMIC_WRITE_KEY = ""
            /\ ~ZodParse(Route(request.name).schema, request.args).ok)
          => /\ IsErrorEnvelope
             /\ ResponseText
                   = DispatcherText(ZodParse(Route(request.name).schema, request.args).message)
             /\ ~HandlerInvoked
    /\ (IsCallOf("cosmic_media_upload") /\ env.COSMIC_WRITE_KEY = ""
            /\ Arg("media") \in MalformedDataUris)
          => /\ IsErrorEnvelope
             /\ ResponseText = "Error uploading media: " \o WriteAccessMessage
    /\ (IsCall /\ request.name \in WriteClassTools /\ env.COSMIC_WRITE_KEY = "")
          => (~ClientObtained /\ ops = <<>>)

\* C28 as stated: the checks of a call are made in the order name lookup,
\* argument validation, write gate, domain-specific input checks, client
\* construction and backend call, with the four consequences drawn from it.
C28_AsStated ==
    /\ IsCall => \A i, j \in 1..Len(events) :
                    i < j => StageAsStated(events[i]) < StageAsStated(events[j])
    /\ OrderConsequences

\* C28: the checks a call makes are made in the order name lookup, argument
\* validation, write gate, then client construction and the backend call;
\* the input check of cosmic_objects_get comes before the client is obtained,
\* the data-URI check of cosmic_media_upload after the client is obtained and
\* before the backend call, so that a malformed data URI sent with a write
\* credential obtains the client (constructing it when none is memoized); the
\* four consequences hold as stated.
C28_CheckOrder ==
    /\ IsCall => \A i, j \in 1..Len(events) :
                    i < j => Stage(events[i]) < Stage(events[j])
    /\ (IsCallOf("cosmic_media_upload") /\ env.COSMIC_WRITE_KEY # ""
            /\ Arg("media") \in MalformedDataUris)
          => (ClientObtained /\ ops = <<>>)
    /\ OrderConsequences

\* A malformed data URI without a write credential was stopped at the gate.
C28_Witness ==
    /\ IsCallOf("cosmic_media_upload")
    /\ env.COSMIC_WRITE_KEY = ""
    /\ Arg("media") = Str("data:bad-format")
    /\ events = <<"parse:uploadMediaSchema", "handler:handleUploadMedia",
                  "requireWriteAccess">>
    /\ ResponseText = "Error uploading media: " \o WriteAccessMessage

\* The messages a failure of a call can carry: the validation issues of the
\* arguments, the write gate's and getConfig's messages, the backend's, and
\* the text that stands for a thrown value that is no Error.
FailureMessages ==
    {ZodParse(ToolSchema(request.name), request.args).message,
     WriteAccessMessage, "Unknown error"}
        \cup {getConfig(e).message : e \in EnvValues}
        \cup {o.thrown.message : o \in Outcomes}

\* The response is the envelope of the dispatcher's catch.
IsDispatcherEnvelope ==
    /\ IsErrorEnvelope
    /\ ResponseText \in {DispatcherText(m) : m \in FailureMessages}

\* C29: the dispatcher-level envelope "Error executing tool <name>: <message>"
\* is returned if and only if the arguments of a known tool fail that tool's
\* validation schema; every failure after validation is reported by the
\* handler with its own message, never with the dispatcher's prefix.
C29_DispatcherEnvelope ==
    IsCall
        => /\ IsDispatcherEnvelope
                 <=> /\ request.name \in RegisteredNames
                     /\ ~ZodParse(ToolSchema(request.name), request.args).ok
           /\ IsDispatcherEnvelope => ~HandlerInvoked
           /\ HandlerInvoked => ~IsDispatcherEnvelope

-----------------------------------------------------------------------------
(* Descriptors and validation schemas *)

ListResponded == pc = "responded" /\ request.kind = "list"

SchemaField(name, key) ==
    LET schema == ToolSchema(name)
    IN schema[CHOOSE i \in 1..Len(schema) : schema[i].name = key]

\* The enumerated value set the validation schema gives the nested field p
\* of the tool's parameter key ({}: none, or no such field).
NestedVals(name, key, p) ==
    LET nested == NestedSchema(SchemaField(name, key))
        at == {j \in 1..Len(nested) : nested[j].name = p}
    IN IF at = {} THEN {} ELSE nested[CHOOSE j \in at : TRUE].vals

\* C27: for each of the 17 tools the descriptor's parameter schema mirrors
\* the validation schema: the same top-level parameter names, a required list
\* that is the set of fields validation does not mark optional, equal
\* enumerated value sets (those of the properties nested under a parameter
\* included), and every declared default equal to the default validation
\* applies.
C27_DescriptorMirrorsSchema ==
    ListResponded
        => /\ Len(response.tools) = 17
           /\ \A i \in 1..Len(response.tools) :
                 LET t == response.tools[i]
                     schema == ToolSchema(t.name)
                 IN /\ t.properties = {schema[j].name : j \in 1..Len(schema)}
                    /\ t.required
                          = {schema[j].name : j \in {k \in 1..Len(schema) : ~schema[k].opt}}
                    /\ \A key \in t.properties :
                          SchemaField(t.name, key).vals
                             = (IF key \in DOMAIN t.enums THEN t.enums[key] ELSE {})
                    /\ \A key \in DOMAIN t.nested :
                          \A p \in t.nested[key].properties :
                             NestedVals(t.name, key, p)
                                = (IF p \in DOMAIN t.nested[key].enums
                                   THEN t.nested[key].enums[p] ELSE {})
                    /\ \A key \in DOMAIN t.defaults :
                          /\ key \in t.properties
                          /\ SchemaField(t.name, key).def = t.defaults[key]

-----------------------------------------------------------------------------
(* The frame of a handler *)

\* C30 as stated: handlers leave their validated parameters unchanged: after
\* a handler returns, every field of params, the nested query object of
\* handleListObjects included, is as it was before the call.
C30_AsStated == IsCall => writes = <<>>

\* C30: handlers leave their validated parameters unchanged, except that
\* handleListObjects, given a query object and a non-empty type and having
\* obtained the client, sets the key type of params.query to the type
\* argument; every other field of params and every other key of the query is
\* as it was before the call.
C30_ParamsFrame ==
    IsCall
        => IF /\ request.name = "cosmic_objects_list"
              /\ Supplied("query") /\ NonEmpty("type")
              /\ ClientObtained
           THEN writes = <<[object |-> "params.query", key |-> "type", v |-> Arg("type")]>>
           ELSE writes = <<>>

\* handleListObjects was given a query and a type and wrote into the query.
C30_Witness ==
    /\ IsCallOf("cosmic_objects_list")
    /\ Arg("query") = Obj("{featured:true}")
    /\ Arg("type") = Str("posts")
    /\ Len(writes) = 1
    /\ writes[1].object = "params.query"

====
